---- MODULE Spec2Model ----
(***************************************************************************)
(* asset-watcher: the asset pipeline (fetch -> ProcessAssets -> render),   *)
(* the advisory-notification pipeline (LoadConfig -> fetch -> process ->   *)
(* send) and the field-extraction helpers they are built from.             *)
(*                                                                         *)
(* Go strings whose bytes the code inspects (paths, comma-separated lists, *)
(* project identifiers) are sequences of one-character strings.  Strings   *)
(* the code only compares or copies (type tags, states, names) are TLA+    *)
(* strings.                                                                *)
(***************************************************************************)
EXTENDS Integers, Sequences, FiniteSets, TLC

VARIABLES
    \* ---- AssetProcessor.ProcessAssets (processor.go) ----
    cfg,               \* p.cfg, the Config the processor was built with
    ppc,               \* position in ProcessAssets: "idle", "loop", "returned"
    includeProjects,   \* local includeProjects (parsed list)
    excludeProjects,   \* local excludeProjects (parsed list)
    read,              \* history: the records assets.Next() has returned
    iterEnd,           \* history: how the iterator ended: "none", "done", "error"
    nextCalls,         \* history: number of calls of assets.Next()
    totalAssets,       \* local totalAssets
    processedResults,  \* local processedResults
    procRet,           \* the pair ProcessAssets returned
    summary,           \* the "Finished processing assets" debug record
    \* ---- asset pipeline main (unnamed/part_009) ----
    apc,               \* position in main
    env,               \* the process environment GetConfig reads
    aerrors,           \* number of error-level log lines main wrote
    rendered,          \* what outputToStdOut was called with and which branch ran
    aexit,             \* exit status of the process (NotExited while running)
    aclosed,           \* number of fetcher.Close() calls
    \* ---- notification pipeline (unnamed/part_008, fetcher.go, config.go) ----
    npc,               \* position in main
    nenv,              \* the process environment LoadConfig reads
    ncfg,              \* the Config LoadConfig returned
    nstderr,           \* number of lines main wrote to standard error
    nerrors,           \* number of error-level log lines
    nfetcher,          \* the fetcher of main: "none", "created", "failed"
    fetchCalls,        \* history: number of FetchNotifications calls
    pages,             \* history: the notifications it.Next() has returned
    fIterEnd,          \* history: how the iterator ended: "none", "done", "error"
    notifications,     \* local notifications of FetchNotifications
    fetchRet,          \* the pair FetchNotifications returned
    processRet,        \* the pair ProcessNotifications returned
    sendIdx,           \* index of the range loop over processedNotifications
    sent,              \* history: the SendNotification calls and their outcomes
    sendErrors,        \* local sendErrors
    nexit,             \* exit status of the process (NotExited while running)
    nclosed,           \* history: the fetcher.Close(ctx) calls, with how client.Close() went
    \* ---- pure helpers applied to enumerated inputs ----
    fnpc,              \* "in" before the helper ran, "out" after
    fnIn,              \* the helper's argument
    fnOut              \* the helper's result

assetVars == <<cfg, ppc, includeProjects, excludeProjects, read, iterEnd, nextCalls,
               totalAssets, processedResults, procRet, summary>>
amainVars == <<apc, env, aerrors, rendered, aexit, aclosed>>
notifVars == <<npc, nenv, ncfg, nstderr, nerrors, nfetcher, fetchCalls, pages, fIterEnd,
               notifications, fetchRet, processRet, sendIdx, sent, sendErrors,
               nexit, nclosed>>
fnVars == <<fnpc, fnIn, fnOut>>

-----------------------------------------------------------------------------
(* Bounds of the model *)

\* longest source the asset iterator yields before it ends
MaxRecords == 2
\* longest parent path given to getProjectID
MaxPathLen == 4

\* the longest address text given to getIPAddress
MaxIPLen == 4

\* the longest string given to splitString
MaxStrLen == 5

\* the longest enumerated text of the maximum-age variable
MaxAgeLen == 2

\* the most parts of a notification given to ProcessNotifications
MaxParts == 3

\* the most assets given to outputToStdOutTable
MaxRows == 2

\* the longest exclude-list or include-list string given to the filters
MaxListLen == 3

-----------------------------------------------------------------------------
(* Strings as byte sequences *)

RECURSIVE SeqsUpTo(_, _)
SeqsUpTo(S, n) ==
    IF n = 0 THEN {<<>>}
    ELSE LET shorter == SeqsUpTo(S, n - 1)
         IN shorter \cup {Append(s, c) : s \in {t \in shorter : Len(t) = n - 1}, c \in S}

\* the sentinel "N/A"
NA == <<"N", "/", "A">>

ProjectAssetType == "cloudresourcemanager.googleapis.com/Project"

\* unicode.IsSpace restricted to the bytes the model uses
IsSpace(c) == c \in {" ", "\t"}

\* strings.Index(s, sep) + 1, 0 when sep does not occur
Index(s, sep) ==
    LET hits == {i \in 1..(Len(s) - Len(sep) + 1) : SubSeq(s, i, i + Len(sep) - 1) = sep}
    IN IF hits = {} THEN 0 ELSE CHOOSE i \in hits : \A j \in hits : i <= j

\* strings.Split(s, sep) for a non-empty sep
RECURSIVE Split(_, _)
Split(s, sep) ==
    LET i == Index(s, sep)
    IN IF i = 0 THEN <<s>>
       ELSE <<SubSeq(s, 1, i - 1)>> \o Split(SubSeq(s, i + Len(sep), Len(s)), sep)

\* strings.TrimSpace
RECURSIVE TrimLeft(_)
TrimLeft(s) == IF s # <<>> /\ IsSpace(Head(s)) THEN TrimLeft(Tail(s)) ELSE s

RECURSIVE TrimRight(_)
TrimRight(s) ==
    IF s # <<>> /\ IsSpace(s[Len(s)]) THEN TrimRight(SubSeq(s, 1, Len(s) - 1)) ELSE s

TrimSpace(s) == TrimRight(TrimLeft(s))

\* slices.Contains
Contains(list, x) == \E i \in 1..Len(list) : list[i] = x

-----------------------------------------------------------------------------
(* processor.go: field extraction *)

\* mutant of KeepTrimmed: a piece that is empty once trimmed is kept too
RECURSIVE KeepTrimmed_KeepsEmpty(_)
KeepTrimmed_KeepsEmpty(pieces) ==
    IF pieces = <<>> THEN <<>>
    ELSE <<TrimSpace(Head(pieces))>> \o KeepTrimmed_KeepsEmpty(Tail(pieces))

\* mutant of KeepTrimmed: a kept piece is appended as it was cut, untrimmed
RECURSIVE KeepTrimmed_Untrimmed(_)
KeepTrimmed_Untrimmed(pieces) ==
    IF pieces = <<>> THEN <<>>
    ELSE LET trimmedStr == TrimSpace(Head(pieces))
         IN (IF trimmedStr # <<>> THEN <<Head(pieces)>> ELSE <<>>)
            \o KeepTrimmed_Untrimmed(Tail(pieces))

\* the loop of splitString over the pieces of strings.Split
RECURSIVE KeepTrimmed(_)
KeepTrimmed(pieces) ==
    IF pieces = <<>> THEN <<>>
    ELSE LET trimmedStr == TrimSpace(Head(pieces))
         IN (IF trimmedStr # <<>> THEN <<trimmedStr>> ELSE <<>>) \o KeepTrimmed(Tail(pieces))

splitString(s, separator) ==
    IF TrimSpace(s) = <<>> THEN <<>>
    ELSE KeepTrimmed(Split(s, separator))

\* mutant of getProjectID: an empty trailing segment gives the sentinel
getProjectID_EmptyIsNA(asset) ==
    IF asset.parentAssetType = ProjectAssetType
    THEN LET parts == Split(asset.parentFullResourceName, <<"/">>)
         IN IF Len(parts) > 0 /\ parts[Len(parts)] # <<>> THEN parts[Len(parts)] ELSE NA
    ELSE NA

getProjectID(asset) ==
    IF asset.parentAssetType = ProjectAssetType
    THEN LET parts == Split(asset.parentFullResourceName, <<"/">>)
         IN IF Len(parts) > 0 THEN parts[Len(parts)] ELSE NA
    ELSE NA

\* The additional attributes of a record, as a kind and a text:
\*   kind "nomap"     - AdditionalAttributes is nil
\*   kind "nofields"  - AdditionalAttributes is set, its Fields are nil
\*   kind "nokey"     - Fields has no "address" key
\*   kind "null"      - Fields["address"] is a nil *structpb.Value
\*   kind "nullvalue" - Fields["address"] holds a NullValue
\*   kind "number"    - Fields["address"] holds a NumberValue, digits in .value
\*   kind "bool"      - Fields["address"] holds a BoolValue
\*   kind "string"    - Fields["address"] holds a StringValue, text in .value

\* mutant of getIPAddress: the result starts out empty instead of "N/A"
getIPAddress_StartsEmpty(asset) ==
    LET attrs == asset.additionalAttributes
        isFieldsExists == attrs.kind \notin {"nomap", "nofields"}
        ok == attrs.kind # "nokey"
        addressFieldNotNil == attrs.kind # "null"
    IN IF ~isFieldsExists THEN NA
       ELSE IF ok /\ addressFieldNotNil /\ attrs.kind = "string" THEN attrs.value
       ELSE <<>>

getIPAddress(asset) ==
    LET attrs == asset.additionalAttributes
        \* line 128
        isFieldsExists == attrs.kind \notin {"nomap", "nofields"}
        \* line 133: the key is in the mapping
        ok == attrs.kind # "nokey"
        \* line 134
        addressFieldNotNil == attrs.kind # "null"
    IN IF ~isFieldsExists THEN NA
       ELSE IF ok /\ addressFieldNotNil /\ attrs.kind = "string" THEN attrs.value
       ELSE NA

\* time.Time.Format("2006-01-02 15:04:05") of a timestamp given in seconds
\* since the epoch, for instants of the epoch's first day (UTC)
FormatTime(t) ==
    [date |-> <<1970, 1, 1>>, hh |-> (t \div 3600) % 24, mm |-> (t \div 60) % 60, ss |-> t % 60]

-----------------------------------------------------------------------------
(* Inputs of ProcessAssets *)

\* values of ASSET_WATCHER_EXCLUDE_PROJECTS / ASSET_WATCHER_INCLUDE_PROJECTS
ListStrings == {<<>>, <<",">>, <<"a">>, <<"a", ",", " ", "b">>}

\* parent references: (type tag, hierarchical path)
ParentRefs ==
    { [type |-> "compute.googleapis.com/Instance", path |-> <<"p", "/", "a">>],
      [type |-> ProjectAssetType, path |-> <<>>],
      [type |-> ProjectAssetType, path |-> <<"a">>],
      [type |-> ProjectAssetType, path |-> <<"p", "/", "b">>] }

\* the fields no filter looks at
OtherFields ==
    { [name |-> "n1", location |-> "global", createTime |-> 0,
       attrs |-> [kind |-> "nomap", value |-> <<>>]],
      [name |-> "n2", location |-> "us-east1", createTime |-> 3661,
       attrs |-> [kind |-> "string", value |-> <<"1", ".", "2">>]] }

\* lifecycle states: the reserved one, one differing from it in case only, another
States == {"ACTIVE", "RESERVED", "reserved"}

MkAsset(o, st, p) ==
    [displayName |-> o.name, location |-> o.location, state |-> st,
     createTime |-> o.createTime, additionalAttributes |-> o.attrs,
     parentAssetType |-> p.type, parentFullResourceName |-> p.path]

AssetRecords == {MkAsset(o, st, p) : o \in OtherFields, st \in States, p \in ParentRefs}

FormatTable == <<"t", "a", "b", "l", "e">>
FormatJSON == <<"j", "s", "o", "n">>

\* the Configs the processor is built with when it is called directly
Configs ==
    [OrgID : {<<"o">>}, OutputFormat : {FormatTable}, ExcludeReserved : BOOLEAN,
     ExcludeProjects : ListStrings, IncludeProjects : ListStrings]

NoConfig ==
    [OrgID |-> <<>>, OutputFormat |-> <<>>, ExcludeReserved |-> FALSE,
     ExcludeProjects |-> <<>>, IncludeProjects |-> <<>>]

\* a Go slice: nil, or a (possibly empty) list
NilSlice == [isNil |-> TRUE, elems |-> <<>>]
Slice(s) == [isNil |-> FALSE, elems |-> s]

NoRet == [returned |-> FALSE, err |-> FALSE, list |-> NilSlice]
NoSummary == [logged |-> FALSE, total_assets |-> 0, total_filtered |-> 0]

-----------------------------------------------------------------------------
(* processor.go: AssetProcessor.ProcessAssets *)

\* lines 105-113: the ProcessedAsset built from an included record
ToProcessedAsset(asset) ==
    [Name |-> asset.displayName,
     Location |-> asset.location,
     Project |-> getProjectID(asset),
     IPAddress |-> getIPAddress(asset),
     Status |-> asset.state,
     CreatedAt |-> FormatTime(asset.createTime)]

\* mutant of Include: a record without a derivable IP address is dropped
Include_NeedsIPAddress(c, excl, incl, asset) ==
    LET projectID == getProjectID(asset)
    IN IF c.ExcludeReserved /\ asset.state = "RESERVED" THEN FALSE
       ELSE IF Contains(excl, projectID) THEN FALSE
       ELSE IF getIPAddress(asset) = NA THEN FALSE
       ELSE IF Len(incl) > 0 THEN Contains(incl, projectID)
       ELSE TRUE

\* mutant of Include: reserved records are dropped when excludeReserved is off
Include_ReservedFlagInverted(c, excl, incl, asset) ==
    LET projectID == getProjectID(asset)
    IN IF ~c.ExcludeReserved /\ asset.state = "RESERVED" THEN FALSE
       ELSE IF Contains(excl, projectID) THEN FALSE
       ELSE IF Len(incl) > 0 THEN Contains(incl, projectID)
       ELSE TRUE

\* mutant of Include: an empty include-list keeps nothing
Include_EmptyIncludeKeepsNothing(c, excl, incl, asset) ==
    LET projectID == getProjectID(asset)
    IN IF c.ExcludeReserved /\ asset.state = "RESERVED" THEN FALSE
       ELSE IF Contains(excl, projectID) THEN FALSE
       ELSE Contains(incl, projectID)

\* mutant of Include: the include-list is consulted before the exclude-list
Include_IncludeListFirst(c, excl, incl, asset) ==
    LET projectID == getProjectID(asset)
    IN IF c.ExcludeReserved /\ asset.state = "RESERVED" THEN FALSE
       ELSE IF Len(incl) > 0 /\ Contains(incl, projectID) THEN TRUE
       ELSE IF Contains(excl, projectID) THEN FALSE
       ELSE Len(incl) = 0

\* lines 90-103: the decision taken for one record
Include(c, excl, incl, asset) ==
    LET projectID == getProjectID(asset)
    IN IF c.ExcludeReserved /\ asset.state = "RESERVED" THEN FALSE
       ELSE IF Contains(excl, projectID) THEN FALSE
       ELSE IF Len(incl) > 0 THEN Contains(incl, projectID)
       ELSE TRUE

\* lines 64-74: entry, up to the loop
EnterProcessAssets(c) ==
    /\ cfg' = c
    /\ includeProjects' = splitString(c.IncludeProjects, <<",">>)
    /\ excludeProjects' = splitString(c.ExcludeProjects, <<",">>)
    /\ totalAssets' = 0
    /\ processedResults' = Slice(<<>>)
    /\ read' = <<>>
    /\ iterEnd' = "none"
    /\ nextCalls' = 0
    /\ procRet' = NoRet
    /\ summary' = NoSummary
    /\ ppc' = "loop"

\* mutant of LoopRecord: an included record is put in front of the results
LoopRecord_Prepends(asset) ==
    /\ ppc = "loop"
    /\ Len(read) < MaxRecords
    /\ nextCalls' = nextCalls + 1
    /\ read' = Append(read, asset)
    /\ totalAssets' = totalAssets + 1
    /\ processedResults' =
         IF Include(cfg, excludeProjects, includeProjects, asset)
         THEN Slice(<<ToProcessedAsset(asset)>> \o processedResults.elems)
         ELSE processedResults
    /\ UNCHANGED <<cfg, ppc, includeProjects, excludeProjects, iterEnd, procRet, summary>>

\* lines 76-115: one iteration in which assets.Next() returns a record
LoopRecord(asset) ==
    /\ ppc = "loop"
    /\ Len(read) < MaxRecords
    /\ nextCalls' = nextCalls + 1
    /\ read' = Append(read, asset)
    /\ totalAssets' = totalAssets + 1
    /\ processedResults' =
         IF Include(cfg, excludeProjects, includeProjects, asset)
         THEN Slice(Append(processedResults.elems, ToProcessedAsset(asset)))
         ELSE processedResults
    /\ UNCHANGED <<cfg, ppc, includeProjects, excludeProjects, iterEnd, procRet, summary>>

\* mutant of LoopDone: total_filtered reports the records kept
LoopDone_FilteredIsKept ==
    /\ ppc = "loop"
    /\ nextCalls' = nextCalls + 1
    /\ iterEnd' = "done"
    /\ summary' = [logged |-> TRUE, total_assets |-> totalAssets,
                   total_filtered |-> Len(processedResults.elems)]
    /\ procRet' = [returned |-> TRUE, err |-> FALSE, list |-> processedResults]
    /\ ppc' = "returned"
    /\ UNCHANGED <<cfg, includeProjects, excludeProjects, read, totalAssets, processedResults>>

\* lines 77-80, 117-122: assets.Next() returns iterator.Done
LoopDone ==
    /\ ppc = "loop"
    /\ nextCalls' = nextCalls + 1
    /\ iterEnd' = "done"
    /\ summary' = [logged |-> TRUE, total_assets |-> totalAssets,
                   total_filtered |-> totalAssets - Len(processedResults.elems)]
    /\ procRet' = [returned |-> TRUE, err |-> FALSE, list |-> processedResults]
    /\ ppc' = "returned"
    /\ UNCHANGED <<cfg, includeProjects, excludeProjects, read, totalAssets, processedResults>>

\* mutant of LoopError: the records kept so far are returned with the error
LoopError_ReturnsPartial ==
    /\ ppc = "loop"
    /\ nextCalls' = nextCalls + 1
    /\ iterEnd' = "error"
    /\ procRet' = [returned |-> TRUE, err |-> TRUE, list |-> processedResults]
    /\ ppc' = "returned"
    /\ UNCHANGED <<cfg, includeProjects, excludeProjects, read, totalAssets,
                   processedResults, summary>>

\* mutant of LoopError: after an error the loop calls assets.Next() again
LoopError_CallsNextAgain ==
    /\ ppc = "loop"
    /\ nextCalls <= MaxRecords
    /\ nextCalls' = nextCalls + 1
    /\ iterEnd' = "error"
    /\ UNCHANGED <<cfg, ppc, includeProjects, excludeProjects, read, totalAssets,
                   processedResults, procRet, summary>>

\* lines 77-84: assets.Next() returns an error other than iterator.Done
LoopError ==
    /\ ppc = "loop"
    /\ nextCalls' = nextCalls + 1
    /\ iterEnd' = "error"
    /\ procRet' = [returned |-> TRUE, err |-> TRUE, list |-> NilSlice]
    /\ ppc' = "returned"
    /\ UNCHANGED <<cfg, includeProjects, excludeProjects, read, totalAssets,
                   processedResults, summary>>

\* a caller (the tests' harness) builds a processor over any Config and calls it
CallProcessAssets ==
    /\ ppc = "idle"
    /\ \E c \in Configs : EnterProcessAssets(c)
    /\ UNCHANGED <<amainVars, notifVars, fnVars>>

ProcRecord ==
    /\ \E asset \in AssetRecords : LoopRecord(asset)
    /\ UNCHANGED <<amainVars, notifVars, fnVars>>

ProcDone == LoopDone /\ UNCHANGED <<amainVars, notifVars, fnVars>>
ProcError == LoopError /\ UNCHANGED <<amainVars, notifVars, fnVars>>

AssetIdle ==
    /\ cfg = NoConfig
    /\ ppc = "idle"
    /\ includeProjects = <<>>
    /\ excludeProjects = <<>>
    /\ read = <<>>
    /\ iterEnd = "none"
    /\ nextCalls = 0
    /\ totalAssets = 0
    /\ processedResults = NilSlice
    /\ procRet = NoRet
    /\ summary = NoSummary

-----------------------------------------------------------------------------
(* config.go: GetConfig and the renderers *)

\* strings.ToLower on the letters the model uses
LowerOf(c) ==
    CASE c = "J" -> "j" [] c = "S" -> "s" [] c = "O" -> "o" [] c = "N" -> "n"
      [] c = "T" -> "t" [] c = "A" -> "a" [] c = "B" -> "b" [] c = "L" -> "l"
      [] c = "E" -> "e" [] c = "R" -> "r" [] c = "U" -> "u" [] OTHER -> c

ToLower(s) == [i \in 1..Len(s) |-> LowerOf(s[i])]

\* an environment variable: unset, or set to a value
Unset == [set |-> FALSE, val |-> <<>>]
SetTo(v) == [set |-> TRUE, val |-> v]

\* the environments main is started in
MainEnvs ==
    [orgID : {Unset, SetTo(<<"o">>)},
     format : {Unset, SetTo(FormatJSON), SetTo(<<"J", "S", "O", "N">>), SetTo(<<"x", "m", "l">>)},
     excludeReserved : BOOLEAN,
     excludeProjects : {Unset, SetTo(<<"a">>)},
     includeProjects : {Unset, SetTo(<<"a">>)}]

NoEnv == [orgID |-> Unset, format |-> Unset, excludeReserved |-> FALSE,
          excludeProjects |-> Unset, includeProjects |-> Unset]

\* env.Parse(&cfg): the struct filled from the environment, envDefault where unset
ParsedConfig(e) ==
    [OrgID |-> e.orgID.val,
     OutputFormat |-> IF e.format.set THEN e.format.val ELSE FormatTable,
     ExcludeReserved |-> e.excludeReserved,
     ExcludeProjects |-> e.excludeProjects.val,
     IncludeProjects |-> e.includeProjects.val]

\* env.Parse fails: ASSET_WATCHER_ORG_ID is "required,notEmpty"
ParseFails(e) == ~e.orgID.set \/ e.orgID.val = <<>>

\* mutant of GetConfigReturns: the two project lists may both be given
GetConfigReturns_BothListsAllowed(e) ==
    LET c == ParsedConfig(e)
    IN /\ ~ParseFails(e)
       /\ ~(ToLower(c.OutputFormat) # FormatTable /\ ToLower(c.OutputFormat) # FormatJSON)

\* GetConfig: TRUE when it returns, FALSE when it ends in log.Fatal
GetConfigReturns(e) ==
    LET c == ParsedConfig(e)
    IN /\ ~ParseFails(e)
       /\ ~(c.ExcludeProjects # <<>> /\ c.IncludeProjects # <<>>)
       /\ ~(ToLower(c.OutputFormat) # FormatTable /\ ToLower(c.OutputFormat) # FormatJSON)

\* outputToStdOut: the branch of the switch that runs
RenderBranch(outputFormat) ==
    IF outputFormat = FormatTable THEN "table"
    ELSE IF outputFormat = FormatJSON THEN "json"
    ELSE "default"

\* the exit status of a process that is still running
NotExited == 0 - 1
NotRendered == [called |-> FALSE, branch |-> "", assets |-> NilSlice]

-----------------------------------------------------------------------------
(* unnamed/part_009: main of the asset pipeline *)

\* the records the fake inventory serves to main
MainAssetRecords ==
    {r \in AssetRecords : r.displayName = "n2" /\ r.parentAssetType = ProjectAssetType
                          /\ r.parentFullResourceName # <<>>}

\* line 17: cfg := GetConfig()
AMainGetConfig ==
    /\ apc = "start"
    /\ \E e \in MainEnvs :
         /\ env' = e
         /\ IF GetConfigReturns(e)
            THEN /\ cfg' = ParsedConfig(e)
                 /\ apc' = "configured"
                 /\ aexit' = aexit
            ELSE /\ cfg' = cfg
                 /\ apc' = "exited"
                 /\ aexit' = 1
    /\ UNCHANGED <<ppc, includeProjects, excludeProjects, read, iterEnd, nextCalls,
                   totalAssets, processedResults, procRet, summary,
                   aerrors, rendered, aclosed, notifVars, fnVars>>

\* lines 30-41: NewGoogleAssetFetcher, and the deferred Close registered on success
AMainNewFetcher ==
    /\ apc = "configured"
    /\ \E ok \in BOOLEAN :
         IF ok
         THEN /\ apc' = "fetcher"
              /\ UNCHANGED <<aerrors, aexit>>
         ELSE /\ aerrors' = aerrors + 1
              /\ apc' = "exited"
              /\ aexit' = 1
    /\ UNCHANGED <<assetVars, env, rendered, aclosed, notifVars, fnVars>>

\* lines 43-46: FetchAssets and the call of processor.ProcessAssets
AMainCallProcessAssets ==
    /\ apc = "fetcher"
    /\ EnterProcessAssets(cfg)
    /\ apc' = "processing"
    /\ UNCHANGED <<env, aerrors, rendered, aexit, aclosed, notifVars, fnVars>>

\* lines 46-54 and config.go 172-219: ProcessAssets has returned; the error is
\* logged, and outputToStdOut is called with processedAssets.  Flushing the
\* table can fail, and then outputToStdOutTable ends the process with status 1.
AMainReport ==
    /\ apc = "processing"
    /\ ppc = "returned"
    /\ aerrors' = IF procRet.err THEN aerrors + 1 ELSE aerrors
    /\ rendered' = [called |-> TRUE, branch |-> RenderBranch(cfg.OutputFormat),
                    assets |-> procRet.list]
    /\ \E flushed \in BOOLEAN :
         IF flushed \/ RenderBranch(cfg.OutputFormat) = "json"
         THEN apc' = "rendered" /\ aexit' = aexit
         ELSE apc' = "exited" /\ aexit' = 1
    /\ UNCHANGED <<assetVars, env, aclosed, notifVars, fnVars>>

\* lines 36-41, 55: main returns, the deferred fetcher.Close() runs
AMainReturn ==
    /\ apc = "rendered"
    /\ aclosed' = aclosed + 1
    /\ apc' = "exited"
    /\ \E closeFails \in BOOLEAN :
         IF closeFails
         THEN aerrors' = aerrors + 1 /\ aexit' = 1
         ELSE aerrors' = aerrors /\ aexit' = 0
    /\ UNCHANGED <<assetVars, env, rendered, notifVars, fnVars>>

AMainRecord ==
    /\ apc = "processing"
    /\ \E asset \in MainAssetRecords : LoopRecord(asset)
    /\ UNCHANGED <<amainVars, notifVars, fnVars>>

AMainDone == apc = "processing" /\ LoopDone /\ UNCHANGED <<amainVars, notifVars, fnVars>>
AMainError == apc = "processing" /\ LoopError /\ UNCHANGED <<amainVars, notifVars, fnVars>>

AMainIdle ==
    /\ apc = "off"
    /\ env = NoEnv
    /\ aerrors = 0
    /\ rendered = NotRendered
    /\ aexit = NotExited
    /\ aclosed = 0

AMainStart ==
    /\ apc = "start"
    /\ env = NoEnv
    /\ aerrors = 0
    /\ rendered = NotRendered
    /\ aexit = NotExited
    /\ aclosed = 0

-----------------------------------------------------------------------------
(* Helpers applied to enumerated inputs *)

FnIdle ==
    /\ fnpc = "off"
    /\ fnIn = <<>>
    /\ fnOut = <<>>

\* the bytes of the parent paths given to getProjectID
PathChars == {"a", "b", "/"}

ParentTypes ==
    {ProjectAssetType, "cloudresourcemanager.googleapis.com/project",
     "compute.googleapis.com/Instance"}

\* the records getProjectID is applied to
ProjectIDInputs ==
    [parentAssetType : ParentTypes,
     parentFullResourceName : SeqsUpTo(PathChars, MaxPathLen)]

ProjectIDStart ==
    /\ fnpc = "in"
    /\ fnIn \in ProjectIDInputs
    /\ fnOut = <<>>

ApplyGetProjectID ==
    /\ fnpc = "in"
    /\ fnOut' = getProjectID(fnIn)
    /\ fnpc' = "out"
    /\ UNCHANGED <<fnIn, assetVars, amainVars, notifVars>>

\* the records getIPAddress is applied to: every kind of attribute mapping,
\* and every text up to MaxIPLen bytes for the kinds that carry one
IPAddressInputs ==
    {[additionalAttributes |-> [kind |-> k, value |-> v]] :
        k \in {"string", "number"}, v \in SeqsUpTo({"1", ".", "N"}, MaxIPLen)}
    \cup {[additionalAttributes |-> [kind |-> k, value |-> <<>>]] :
        k \in {"nomap", "nofields", "nokey", "null", "nullvalue", "bool"}}

ApplyGetIPAddress ==
    /\ fnpc = "in"
    /\ fnOut' = getIPAddress(fnIn)
    /\ fnpc' = "out"
    /\ UNCHANGED <<fnIn, assetVars, amainVars, notifVars>>

\* the (string, separator) pairs splitString is applied to: every string up to
\* MaxStrLen bytes over two letters, the blank and the comma; a one-byte
\* separator, one that overlaps itself, and one that ends in a blank
SplitInputs ==
    [s : SeqsUpTo({"a", "b", " ", ","}, MaxStrLen),
     separator : {<<",">>, <<",", ",">>, <<",", " ">>}]

ApplySplitString ==
    /\ fnpc = "in"
    /\ fnOut' = splitString(fnIn.s, fnIn.separator)
    /\ fnpc' = "out"
    /\ UNCHANGED <<fnIn, assetVars, amainVars, notifVars>>

-----------------------------------------------------------------------------
(* processor.go: the filters of ProcessAssets applied to one record *)

\* the calls made: every exclude-list and include-list string of up to
\* MaxListLen bytes over a letter, the separator and a blank, and records
\* whose parent is a project with an empty path, a path ending in "/", a path
\* naming project a, or is no project
FilterInputs ==
    [cfg : [OrgID : {<<"o">>}, OutputFormat : {FormatTable}, ExcludeReserved : BOOLEAN,
            ExcludeProjects : SeqsUpTo({"a", ",", " "}, MaxListLen),
            IncludeProjects : SeqsUpTo({"a", ",", " "}, MaxListLen)],
     asset : {MkAsset([name |-> "n1", location |-> "global", createTime |-> 0,
                       attrs |-> [kind |-> "nomap", value |-> <<>>]], st, p) :
                st \in {"ACTIVE", "RESERVED"},
                p \in {[type |-> ProjectAssetType, path |-> <<>>],
                       [type |-> ProjectAssetType, path |-> <<"p", "/">>],
                       [type |-> ProjectAssetType, path |-> <<"p", "/", "a">>],
                       [type |-> "compute.googleapis.com/Instance", path |-> <<"a">>]}}]

\* lines 70-71 and 90-103: the lists are parsed, the record is kept or not
ApplyFilters ==
    /\ fnpc = "in"
    /\ fnOut' = Include(fnIn.cfg, splitString(fnIn.cfg.ExcludeProjects, <<",">>),
                        splitString(fnIn.cfg.IncludeProjects, <<",">>), fnIn.asset)
    /\ fnpc' = "out"
    /\ UNCHANGED <<fnIn, assetVars, amainVars, notifVars>>

-----------------------------------------------------------------------------
(* config.go: outputToStdOutTable *)

\* line 186: the header line handed to the tabwriter
HeaderLine ==
    <<"D", "i", "s", "p", "l", "a", "y", " ", "N", "a", "m", "e", "\t", "L", "o", "c",
      "a", "t", "i", "o", "n", "\t", "P", "r", "o", "j", "e", "c", "t", " ", "I", "D",
      "\t", "I", "P", " ", "A", "d", "d", "r", "e", "s", "s", "\t", "S", "t", "a", "t",
      "e", "\t", "C", "r", "e", "a", "t", "e", "d", " ", "A", "t", "\n">>

\* line 187: the separator line
SeparatorLine ==
    <<"-", "-", "-", "-", "-", "-", "-", "-", "-", "-", "-", "-", "\t", "-", "-", "-",
      "-", "-", "-", "-", "-", "\t", "-", "-", "-", "-", "-", "-", "-", "-", "-", "-",
      "\t", "-", "-", "-", "-", "-", "-", "-", "-", "-", "-", "\t", "-", "-", "-", "-",
      "-", "\t", "-", "-", "-", "-", "-", "-", "-", "-", "-", "-", "\n">>

\* mutant of RowLine: the state is written before the IP address
RowLine_StateBeforeIP(resource) ==
    resource.Name \o <<"\t">> \o resource.Location \o <<"\t">> \o resource.Project
    \o <<"\t">> \o resource.Status \o <<"\t">> \o resource.IPAddress \o <<"\t">>
    \o resource.CreatedAt \o <<"\n">>

\* lines 192-201: Fprintf(w, "%s\t%s\t%s\t%s\t%s\t%s\n", ...) for one asset
RowLine(resource) ==
    resource.Name \o <<"\t">> \o resource.Location \o <<"\t">> \o resource.Project
    \o <<"\t">> \o resource.IPAddress \o <<"\t">> \o resource.Status \o <<"\t">>
    \o resource.CreatedAt \o <<"\n">>

\* lines 189-202: the loop over processedAssets
RECURSIVE RowLines(_)
RowLines(processedAssets) ==
    IF processedAssets = <<>> THEN <<>>
    ELSE RowLine(Head(processedAssets)) \o RowLines(Tail(processedAssets))

\* text/tabwriter: the text is cut into lines at "\n" and each line into
\* cells at "\t"; what follows the last "\n" is a line only when not empty.
\* The padding of the cells and the "|" between columns are left out.
TabRows(text) ==
    LET lines == Split(text, <<"\n">>)
        whole == IF lines[Len(lines)] = <<>> THEN SubSeq(lines, 1, Len(lines) - 1) ELSE lines
    IN [i \in 1..Len(whole) |-> Split(whole[i], <<"\t">>)]

\* outputToStdOutTable: the rows of cells written to standard output
outputToStdOutTable(processedAssets) ==
    TabRows(HeaderLine \o SeparatorLine \o RowLines(processedAssets))

\* the lists outputToStdOutTable is applied to: up to MaxRows assets, their
\* fields short texts as the processor gives them, the empty text and the
\* sentinel included
TableInputs ==
    SeqsUpTo([Name : {<<"a">>, <<"b">>}, Location : {<<"l">>, <<>>},
              Project : {<<"p">>, NA}, IPAddress : {<<"1">>, NA},
              Status : {<<"S">>}, CreatedAt : {<<"2", "0", ":", "0", "1">>}], MaxRows)

ApplyOutputTable ==
    /\ fnpc = "in"
    /\ fnOut' = outputToStdOutTable(fnIn)
    /\ fnpc' = "out"
    /\ UNCHANGED <<fnIn, assetVars, amainVars, notifVars>>

-----------------------------------------------------------------------------
(* config.go: outputToStdOutJSON *)

\* encoding/json: a byte of a string as it is written between the quotes
jsonEscape(c) ==
    CASE c = "\"" -> <<"\\", "\"">>
      [] c = "\\" -> <<"\\", "\\">>
      [] c = "\n" -> <<"\\", "n">>
      [] OTHER -> <<c>>

\* encoding/json: a Go string as a JSON string
RECURSIVE jsonString(_)
jsonString(s) ==
    IF s = <<>> THEN <<"\"", "\"">>
    ELSE LET rest == jsonString(Tail(s))
         IN <<"\"">> \o jsonEscape(Head(s)) \o Tail(rest)

\* processor.go 22-29 and json.MarshalIndent(., "", "  "): one ProcessedAsset as
\* an object at depth 1, its members in the order of the struct's fields
jsonObject(asset) ==
    <<" ", " ", "{", "\n">>
    \o
    <<" ", " ", " ", " ", "\"", "n", "a", "m", "e", "\"", ":", " ">> \o jsonString(asset.Name) \o <<",", "\n">>
    \o
    <<" ", " ", " ", " ", "\"", "l", "o", "c", "a", "t", "i", "o", "n", "\"", ":", " ">> \o jsonString(asset.Location) \o <<",", "\n">>
    \o
    <<" ", " ", " ", " ", "\"", "s", "t", "a", "t", "u", "s", "\"", ":", " ">> \o jsonString(asset.Status) \o <<",", "\n">>
    \o
    <<" ", " ", " ", " ", "\"", "i", "p", "A", "d", "d", "r", "e", "s", "s", "\"", ":", " ">> \o jsonString(asset.IPAddress) \o <<",", "\n">>
    \o
    <<" ", " ", " ", " ", "\"", "p", "r", "o", "j", "e", "c", "t", "\"", ":", " ">> \o jsonString(asset.Project) \o <<",", "\n">>
    \o
    <<" ", " ", " ", " ", "\"", "c", "r", "e", "a", "t", "e", "d", "A", "t", "\"", ":", " ">> \o jsonString(asset.CreatedAt) \o <<"\n">>
    \o <<" ", " ", "}">>

\* the objects of a non-empty list, "," and a line break between two of them
RECURSIVE jsonObjects(_)
jsonObjects(assets) ==
    IF Len(assets) = 1 THEN jsonObject(assets[1])
    ELSE jsonObject(assets[1]) \o <<",", "\n">> \o jsonObjects(Tail(assets))

\* line 212: json.MarshalIndent(processedAssets, "", "  "); a nil slice is
\* written as null, an empty one as []
MarshalIndent(processedAssets) ==
    IF processedAssets.isNil THEN <<"n", "u", "l", "l">>
    ELSE IF processedAssets.elems = <<>> THEN <<"[", "]">>
    ELSE <<"[", "\n">> \o jsonObjects(processedAssets.elems) \o <<"\n", "]">>

\* outputToStdOutJSON: the text written to standard output (line 218: Println)
outputToStdOutJSON(processedAssets) == MarshalIndent(processedAssets) \o <<"\n">>

\* the slices outputToStdOutJSON is applied to: the nil slice main holds after
\* a failed ProcessAssets, and every list of up to MaxRows assets whose fields
\* are short texts with the bytes JSON gives a meaning to
JSONInputs ==
    {NilSlice} \cup
    {Slice(s) : s \in SeqsUpTo(
        [Name : {<<"a">>, <<"a", "\"", ":">>}, Location : {<<>>, <<"\\", "n">>},
         Status : {<<"S">>}, IPAddress : {NA, <<"1", ",", "}">>},
         Project : {<<"p">>, <<"]", "\n", " ">>},
         CreatedAt : {<<"2", "0", " ", "0", "1">>}], MaxRows)}

ApplyOutputJSON ==
    /\ fnpc = "in"
    /\ fnOut' = outputToStdOutJSON(fnIn)
    /\ fnpc' = "out"
    /\ UNCHANGED <<fnIn, assetVars, amainVars, notifVars>>

-----------------------------------------------------------------------------
(* config.go: LoadConfig of the notification pipeline *)

safetyMarginMaxNotificationAgeSeconds == 600

DigitChars == <<"0", "1", "2", "3", "4", "5", "6", "7", "8", "9">>
IsDigit(c) == \E d \in 1..10 : DigitChars[d] = c
DigitVal(c) == (CHOOSE d \in 1..10 : DigitChars[d] = c) - 1

\* A 64-bit integer is four 16-bit words, least significant first, in two's
\* complement.
Word == 2^16

\* the int64 of a number from 0 to Word - 1
Int64(n) == <<n, 0, 0, 0>>

\* the number an int64 stands for, when it is a non-negative one below 2^30
IntOf(a) == a[2] * Word + a[1]

\* a + b in int64: the carry out of the top word is dropped
Add64(a, b) ==
    LET t1 == a[1] + b[1]
        t2 == a[2] + b[2] + (t1 \div Word)
        t3 == a[3] + b[3] + (t2 \div Word)
        t4 == a[4] + b[4] + (t3 \div Word)
    IN <<t1 % Word, t2 % Word, t3 % Word, t4 % Word>>

\* -a in int64
Neg64(a) ==
    Add64(<<Word - 1 - a[1], Word - 1 - a[2], Word - 1 - a[3], Word - 1 - a[4]>>, Int64(1))

\* a < b for int64: the top word carries the sign
Less64(a, b) ==
    LET top(x) == (x[4] + Word \div 2) % Word
        differ == {i \in 1..3 : a[i] # b[i]}
        hi == CHOOSE i \in differ : \A j \in differ : j <= i
    IN IF top(a) # top(b) THEN top(a) < top(b)
       ELSE differ # {} /\ a[hi] < b[hi]

\* strconv.ParseUint(s, 10, 64) on a run of digits: the words of the number,
\* and whether it went past 2^64 - 1
RECURSIVE ParseUint(_, _)
ParseUint(s, acc) ==
    IF s = <<>> THEN acc
    ELSE LET t1 == acc.words[1] * 10 + DigitVal(Head(s))
             t2 == acc.words[2] * 10 + (t1 \div Word)
             t3 == acc.words[3] * 10 + (t2 \div Word)
             t4 == acc.words[4] * 10 + (t3 \div Word)
         IN ParseUint(Tail(s), [words |-> <<t1 % Word, t2 % Word, t3 % Word, t4 % Word>>,
                                over |-> acc.over \/ t4 >= Word])

\* strconv.ParseInt(s, 10, 64): a syntax error for anything but an optional
\* sign and one or more digits, a range error outside -2^63 .. 2^63 - 1
ParseInt(s) ==
    LET signed == s # <<>> /\ Head(s) \in {"+", "-"}
        neg == signed /\ Head(s) = "-"
        digits == IF signed THEN Tail(s) ELSE s
        un == ParseUint(digits, [words |-> Int64(0), over |-> FALSE])
        cutoff == <<0, 0, 0, Word \div 2>>
    IN IF digits = <<>> \/ \E i \in 1..Len(digits) : ~IsDigit(digits[i])
       THEN [ok |-> FALSE, val |-> Int64(0)]
       ELSE IF un.over THEN [ok |-> FALSE, val |-> Int64(0)]
       ELSE IF ~neg /\ un.words[4] >= Word \div 2 THEN [ok |-> FALSE, val |-> Int64(0)]
       ELSE IF neg /\ un.words[4] >= Word \div 2 /\ un.words # cutoff
       THEN [ok |-> FALSE, val |-> Int64(0)]
       ELSE [ok |-> TRUE, val |-> IF neg THEN Neg64(un.words) ELSE un.words]

\* getMandatoryEnvVar: TRUE when it returns an error
MandatoryMissing(v) == ~v.set \/ v.val = <<>>

NoNConfig == [OrgID |-> <<>>, SlackToken |-> <<>>, SlackChannelID |-> <<>>,
              MaxNotificationAgeSeconds |-> Int64(0), Debug |-> FALSE]

\* mutant of LoadConfig: the chat channel id is looked up before the chat token
LoadConfig_ChannelBeforeToken(e) ==
    IF MandatoryMissing(e.orgID) THEN [err |-> "ADV_NOTIF_ORG_ID", cfg |-> NoNConfig]
    ELSE IF MandatoryMissing(e.slackChannelID)
    THEN [err |-> "ADV_NOTIF_SLACK_CHANNEL_ID", cfg |-> NoNConfig]
    ELSE IF MandatoryMissing(e.slackToken)
    THEN [err |-> "ADV_NOTIF_SLACK_TOKEN", cfg |-> NoNConfig]
    ELSE IF MandatoryMissing(e.maxAge)
    THEN [err |-> "ADV_NOTIF_MAX_NOTIFICATION_AGE_SECONDS", cfg |-> NoNConfig]
    ELSE IF ~ParseInt(e.maxAge.val).ok
    THEN [err |-> "ADV_NOTIF_MAX_NOTIFICATION_AGE_SECONDS must be a valid integer",
          cfg |-> NoNConfig]
    ELSE [err |-> "",
          cfg |-> [OrgID |-> e.orgID.val,
                   SlackToken |-> e.slackToken.val,
                   SlackChannelID |-> e.slackChannelID.val,
                   MaxNotificationAgeSeconds |->
                       Add64(ParseInt(e.maxAge.val).val,
                             Int64(safetyMarginMaxNotificationAgeSeconds)),
                   Debug |-> ToLower(e.debug.val) = <<"t", "r", "u", "e">>]]

\* LoadConfig: the (config, error) pair, with the variable the error names
LoadConfig(e) ==
    IF MandatoryMissing(e.orgID) THEN [err |-> "ADV_NOTIF_ORG_ID", cfg |-> NoNConfig]
    ELSE IF MandatoryMissing(e.slackToken)
    THEN [err |-> "ADV_NOTIF_SLACK_TOKEN", cfg |-> NoNConfig]
    ELSE IF MandatoryMissing(e.slackChannelID)
    THEN [err |-> "ADV_NOTIF_SLACK_CHANNEL_ID", cfg |-> NoNConfig]
    ELSE IF MandatoryMissing(e.maxAge)
    THEN [err |-> "ADV_NOTIF_MAX_NOTIFICATION_AGE_SECONDS", cfg |-> NoNConfig]
    ELSE IF ~ParseInt(e.maxAge.val).ok
    THEN [err |-> "ADV_NOTIF_MAX_NOTIFICATION_AGE_SECONDS must be a valid integer",
          cfg |-> NoNConfig]
    ELSE [err |-> "",
          cfg |-> [OrgID |-> e.orgID.val,
                   SlackToken |-> e.slackToken.val,
                   SlackChannelID |-> e.slackChannelID.val,
                   MaxNotificationAgeSeconds |->
                       Add64(ParseInt(e.maxAge.val).val,
                             Int64(safetyMarginMaxNotificationAgeSeconds)),
                   Debug |-> ToLower(e.debug.val) = <<"t", "r", "u", "e">>]]

\* the environments the notification main is started in
NotifEnvs ==
    [orgID : {Unset, SetTo(<<"o">>)},
     slackToken : {SetTo(<<>>), SetTo(<<"t">>)},
     slackChannelID : {Unset, SetTo(<<"c">>)},
     maxAge : {Unset, SetTo(<<"x">>), SetTo(<<"0">>), SetTo(<<"6", "0">>)},
     debug : {Unset}]

NoNEnv == [orgID |-> Unset, slackToken |-> Unset, slackChannelID |-> Unset,
           maxAge |-> Unset, debug |-> Unset]

\* texts of ADV_NOTIF_MAX_NOTIFICATION_AGE_SECONDS at the edges of int64: small
\* values with and without a sign, the largest value the margin can be added to
\* and the one after it, the two ends of the range and the first text past
\* each, and two texts past 2^64
EdgeAgeTexts ==
    { <<"0">>,
      <<"+", "5">>,
      <<"-", "6", "0", "0">>,
      <<"-", "6", "0", "1">>,
      <<"0", "0", "7">>,
      <<"9", "2", "2", "3", "3", "7", "2", "0", "3", "6", "8", "5", "4", "7", "7", "5", "2", "0", "7">>,
      <<"9", "2", "2", "3", "3", "7", "2", "0", "3", "6", "8", "5", "4", "7", "7", "5", "2", "0", "8">>,
      <<"9", "2", "2", "3", "3", "7", "2", "0", "3", "6", "8", "5", "4", "7", "7", "5", "8", "0", "7">>,
      <<"9", "2", "2", "3", "3", "7", "2", "0", "3", "6", "8", "5", "4", "7", "7", "5", "8", "0", "8">>,
      <<"-", "9", "2", "2", "3", "3", "7", "2", "0", "3", "6", "8", "5", "4", "7", "7", "5", "8", "0", "8">>,
      <<"-", "9", "2", "2", "3", "3", "7", "2", "0", "3", "6", "8", "5", "4", "7", "7", "5", "8", "0", "9">>,
      <<"1", "8", "4", "4", "6", "7", "4", "4", "0", "7", "3", "7", "0", "9", "5", "5", "1", "6", "1", "6">>,
      <<"9", "9", "9", "9", "9", "9", "9", "9", "9", "9", "9", "9", "9", "9", "9", "9", "9", "9", "9", "9">> }

\* the environments LoadConfig is applied to: each mandatory variable unset,
\* empty or set; the age also every text up to MaxAgeLen bytes over a digit,
\* the minus sign and a letter
LoadConfigEnvs ==
    [orgID : {Unset, SetTo(<<>>), SetTo(<<"o">>)},
     slackToken : {Unset, SetTo(<<>>), SetTo(<<"t">>)},
     slackChannelID : {Unset, SetTo(<<>>), SetTo(<<"c">>)},
     maxAge : {Unset} \cup {SetTo(v) : v \in SeqsUpTo({"7", "-", "x"}, MaxAgeLen) \cup EdgeAgeTexts},
     debug : {Unset, SetTo(<<"t", "r", "u", "e">>), SetTo(<<"T", "R", "U", "E">>), SetTo(<<"1">>)}]

ApplyLoadConfig ==
    /\ fnpc = "in"
    /\ fnOut' = LoadConfig(fnIn)
    /\ fnpc' = "out"
    /\ UNCHANGED <<fnIn, assetVars, amainVars, notifVars>>

-----------------------------------------------------------------------------
(* The notifications served, and their processing *)

\* an instant: seconds since the epoch and microseconds within the second
Time(sec, usec) == [sec |-> sec, usec |-> usec]

\* time.Time.After
After(t, u) == t.sec > u.sec \/ (t.sec = u.sec /\ t.usec > u.usec)

\* time.Now() of the run
Now == Time(2000, 0)

\* a message part: its HTML body, and what htmltomarkdown.ConvertString gives
\* for it (the converted text, or an error)
PartA == [html |-> <<"<", "A", ">">>, fails |-> FALSE, markdown |-> <<"A">>]
PartB == [html |-> <<"<", "B", ">">>, fails |-> FALSE, markdown |-> <<"B">>]
PartBad == [html |-> <<"<">>, fails |-> TRUE, markdown |-> <<>>]
PartEmpty == [html |-> <<>>, fails |-> FALSE, markdown |-> <<>>]

RawNotifications ==
    { [name |-> "n1", subject |-> "s1", createTime |-> Time(Now.sec - 10, 0), parts |-> <<PartA>>],
      [name |-> "n2", subject |-> "s2", createTime |-> Time(Now.sec - 600, 0),
       parts |-> <<PartA, PartBad, PartB>>],
      [name |-> "n3", subject |-> "s3", createTime |-> Time(Now.sec - 5000, 0), parts |-> <<PartB>>] }

\* mutant of convertHTMLToMarkdown: a failed conversion gives the empty text
convertHTMLToMarkdown_EmptyOnFailure(part) == IF part.fails THEN <<>> ELSE part.markdown

\* unnamed/part_002: convertHTMLToMarkdown
convertHTMLToMarkdown(part) == IF part.fails THEN NA ELSE part.markdown

BodySeparator == <<"\n", "\n", "-", "-", "-", "\n", "\n">>

\* mutant of JoinBodies: the separator follows every part, the last included
RECURSIVE JoinBodies_SeparatorAfterEach(_)
JoinBodies_SeparatorAfterEach(parts) ==
    IF parts = <<>> THEN <<>>
    ELSE convertHTMLToMarkdown(parts[1]) \o BodySeparator
         \o JoinBodies_SeparatorAfterEach(Tail(parts))

\* the converted part bodies joined with the separator
RECURSIVE JoinBodies(_)
JoinBodies(parts) ==
    IF parts = <<>> THEN <<>>
    ELSE IF Len(parts) = 1 THEN convertHTMLToMarkdown(parts[1])
    ELSE convertHTMLToMarkdown(parts[1]) \o BodySeparator \o JoinBodies(Tail(parts))

ToProcessedNotification(n) ==
    [OriginalName |-> n.name, Subject |-> n.subject,
     FormattedBody |-> JoinBodies(n.parts), CreateTime |-> n.createTime]

\* mutant of InAgeWindow: a notification created at the cutoff survives
InAgeWindow_CutoffIncluded(maxAge, n) ==
    LET cutoff == Time(Now.sec - maxAge, Now.usec)
    IN ~After(cutoff, n.createTime)

\* a notification survives when created strictly after now - maxAge
InAgeWindow(maxAge, n) ==
    LET cutoff == Time(Now.sec - maxAge, Now.usec)
    IN After(n.createTime, cutoff)

\* NotificationProcessor.ProcessNotifications: the list it returns on success
RECURSIVE ProcessNotifications(_, _)
ProcessNotifications(maxAge, ns) ==
    IF ns = <<>> THEN <<>>
    ELSE (IF InAgeWindow(maxAge, Head(ns)) THEN <<ToProcessedNotification(Head(ns))>>
          ELSE <<>>) \o ProcessNotifications(maxAge, Tail(ns))

\* the calls of ProcessNotifications made with one notification under test:
\* every creation time around the cutoffs of the ages, to the microsecond, and
\* every list of up to MaxParts parts; alone, after a recent notification, or
\* before an old one
ProcessInputs ==
    LET recent == [name |-> "recent", subject |-> "r", createTime |-> Now,
                   parts |-> <<PartB>>]
        old == [name |-> "old", subject |-> "o", createTime |-> Time(0, 0),
                parts |-> <<PartA>>]
        tested == [name : {"n"}, subject : {"s"},
                   createTime : {Time(Now.sec - d, u) : d \in {1, 600, 601, 660, 661},
                                                        u \in {0, 1, 999999}},
                   parts : SeqsUpTo({PartA, PartB, PartBad, PartEmpty}, MaxParts)]
    IN [maxAge : {0, 600, 660},
        ns : UNION {{<<n>>, <<recent, n>>, <<n, old>>} : n \in tested}]

\* ProcessNotifications returns; it has no failure of its own
ApplyProcessNotifications ==
    /\ fnpc = "in"
    /\ fnOut' = [err |-> FALSE, list |-> ProcessNotifications(fnIn.maxAge, fnIn.ns)]
    /\ fnpc' = "out"
    /\ UNCHANGED <<fnIn, assetVars, amainVars, notifVars>>

-----------------------------------------------------------------------------
(* fetcher.go: GoogleAdvisoryNotificationFetcher *)

\* longest list the notification iterator yields before it ends
MaxNotifs == 3

NoNRet == [returned |-> FALSE, err |-> FALSE, list |-> NilSlice]

\* append(notifications, resp): appending to a nil slice gives a non-nil one
AppendSlice(sl, x) == Slice(Append(sl.elems, x))

\* lines 118-130: it.Next() returns a notification
FetchRecord(resp) ==
    /\ npc = "fetching"
    /\ Len(pages) < MaxNotifs
    /\ pages' = Append(pages, resp)
    /\ notifications' = AppendSlice(notifications, resp)
    /\ UNCHANGED <<nfetcher, npc, nenv, ncfg, nstderr, nerrors, fetchCalls, fIterEnd, fetchRet,
                   processRet, sendIdx, sent, sendErrors, nexit, nclosed>>

\* lines 119-122, 132-133: it.Next() returns iterator.Done
FetchDone ==
    /\ npc = "fetching"
    /\ fIterEnd' = "done"
    /\ fetchRet' = [returned |-> TRUE, err |-> FALSE, list |-> notifications]
    /\ npc' = "fetched"
    /\ UNCHANGED <<nfetcher, nenv, ncfg, nstderr, nerrors, fetchCalls, pages, notifications,
                   processRet, sendIdx, sent, sendErrors, nexit, nclosed>>

\* mutant of FetchError: any error ends the loop like iterator.Done
FetchError_TreatedAsDone ==
    /\ npc = "fetching"
    /\ fIterEnd' = "error"
    /\ nerrors' = nerrors
    /\ fetchRet' = [returned |-> TRUE, err |-> FALSE, list |-> notifications]
    /\ npc' = "fetched"
    /\ UNCHANGED <<nfetcher, nenv, ncfg, nstderr, fetchCalls, pages, notifications,
                   processRet, sendIdx, sent, sendErrors, nexit, nclosed>>

\* mutant of FetchError: the notifications read so far are returned with the error
FetchError_ReturnsPartial ==
    /\ npc = "fetching"
    /\ fIterEnd' = "error"
    /\ nerrors' = nerrors + 1
    /\ fetchRet' = [returned |-> TRUE, err |-> TRUE, list |-> notifications]
    /\ npc' = "fetched"
    /\ UNCHANGED <<nfetcher, nenv, ncfg, nstderr, fetchCalls, pages, notifications,
                   processRet, sendIdx, sent, sendErrors, nexit, nclosed>>

\* lines 123-128: it.Next() returns an error
FetchError ==
    /\ npc = "fetching"
    /\ fIterEnd' = "error"
    /\ nerrors' = nerrors + 1
    /\ fetchRet' = [returned |-> TRUE, err |-> TRUE, list |-> NilSlice]
    /\ npc' = "fetched"
    /\ UNCHANGED <<nfetcher, nenv, ncfg, nstderr, fetchCalls, pages, notifications,
                   processRet, sendIdx, sent, sendErrors, nexit, nclosed>>

\* lines 137-146: the error Close(ctx) returns when client.Close() fails or not
CloseReturnsError(clientCloseFails) == FALSE

-----------------------------------------------------------------------------
(* unnamed/part_008: main of the notification pipeline *)

\* lines 19-24: LoadConfig; a failure is printed to standard error, exit 1
NMainLoadConfig ==
    /\ npc = "start"
    /\ \E e \in NotifEnvs :
         /\ nenv' = e
         /\ IF LoadConfig(e).err = ""
            THEN /\ ncfg' = LoadConfig(e).cfg
                 /\ npc' = "configured"
                 /\ UNCHANGED <<nstderr, nexit>>
            ELSE /\ nstderr' = nstderr + 1
                 /\ nexit' = 1
                 /\ npc' = "exited"
                 /\ ncfg' = ncfg
    /\ UNCHANGED <<nfetcher, nerrors, fetchCalls, pages, fIterEnd, notifications, fetchRet,
                   processRet, sendIdx, sent, sendErrors, nclosed,
                   assetVars, amainVars, fnVars>>

\* lines 35-45: NewGoogleAdvisoryNotificationFetcher (fetcher.go 94-106, which
\* logs its own failure), and the deferred Close registered on success
NMainNewFetcher ==
    /\ npc = "configured"
    /\ \E ok \in BOOLEAN :
         IF ok
         THEN /\ nfetcher' = "created"
              /\ npc' = "fetcher"
              /\ UNCHANGED <<nerrors, nexit>>
         ELSE /\ nfetcher' = "failed"
              /\ nerrors' = nerrors + 2
              /\ nexit' = 1
              /\ npc' = "exited"
    /\ UNCHANGED <<nenv, ncfg, nstderr, fetchCalls, pages, fIterEnd, notifications,
                   fetchRet, processRet, sendIdx, sent, sendErrors, nclosed,
                   assetVars, amainVars, fnVars>>

\* line 47 and fetcher.go 109-117: FetchNotifications is entered
NMainCallFetch ==
    /\ npc = "fetcher"
    /\ fetchCalls' = fetchCalls + 1
    /\ notifications' = NilSlice
    /\ npc' = "fetching"
    /\ UNCHANGED <<nfetcher, nenv, ncfg, nstderr, nerrors, pages, fIterEnd, fetchRet,
                   processRet, sendIdx, sent, sendErrors, nexit, nclosed,
                   assetVars, amainVars, fnVars>>

\* lines 48-60: the fetch result is examined; on success ProcessNotifications
\* runs, and its result is examined.  os.Exit skips the deferred Close.
NMainProcess ==
    /\ npc = "fetched"
    /\ IF fetchRet.err
       THEN /\ nerrors' = nerrors + 1
            /\ nexit' = 1
            /\ npc' = "exited"
            /\ UNCHANGED <<processRet, sendIdx>>
       ELSE \E fails \in BOOLEAN :
              IF fails
              THEN /\ processRet' = [returned |-> TRUE, err |-> TRUE, list |-> NilSlice]
                   /\ nerrors' = nerrors + 1
                   /\ nexit' = 1
                   /\ npc' = "exited"
                   /\ UNCHANGED sendIdx
              ELSE /\ processRet' =
                        [returned |-> TRUE, err |-> FALSE,
                         list |-> Slice(ProcessNotifications(
                                     IntOf(ncfg.MaxNotificationAgeSeconds),
                                     fetchRet.list.elems))]
                   /\ sendIdx' = 1
                   /\ npc' = "sending"
                   /\ UNCHANGED <<nerrors, nexit>>
    /\ UNCHANGED <<nfetcher, nenv, ncfg, nstderr, fetchCalls, pages, fIterEnd, notifications,
                   fetchRet, sent, sendErrors, nclosed,
                   assetVars, amainVars, fnVars>>

\* mutant of SendStep: the loop is left at the first failed send
SendStep_StopsAtFailure(ok) ==
    /\ sent' = Append(sent, [item |-> processRet.list.elems[sendIdx], ok |-> ok])
    /\ sendErrors' = (sendErrors \/ ~ok)
    /\ nerrors' = IF ok THEN nerrors ELSE nerrors + 2
    /\ sendIdx' = IF ok THEN sendIdx + 1 ELSE Len(processRet.list.elems) + 1
    /\ UNCHANGED <<npc, nexit>>

\* mutant of SendStep: sendErrors holds the outcome of the last send only
SendStep_ForgetsFailure(ok) ==
    /\ sent' = Append(sent, [item |-> processRet.list.elems[sendIdx], ok |-> ok])
    /\ sendErrors' = ~ok
    /\ nerrors' = IF ok THEN nerrors ELSE nerrors + 2
    /\ sendIdx' = sendIdx + 1
    /\ UNCHANGED <<npc, nexit>>

\* what one pass of the send loop does after SendNotification returned
SendStep(ok) ==
    /\ sent' = Append(sent, [item |-> processRet.list.elems[sendIdx], ok |-> ok])
    /\ sendErrors' = (sendErrors \/ ~ok)
    /\ nerrors' = IF ok THEN nerrors ELSE nerrors + 2
    /\ sendIdx' = sendIdx + 1
    /\ UNCHANGED <<npc, nexit>>

\* lines 66-75 and unnamed/part_005 105-134: one pass of the range loop
NMainSend ==
    /\ npc = "sending"
    /\ sendIdx <= Len(processRet.list.elems)
    /\ \E ok \in BOOLEAN : SendStep(ok)
    /\ UNCHANGED <<nfetcher, nenv, ncfg, nstderr, fetchCalls, pages, fIterEnd, notifications,
                   fetchRet, processRet, nclosed,
                   assetVars, amainVars, fnVars>>

\* lines 77-81, 40-45: the loop is over.  With sendErrors the process exits 1
\* (os.Exit, the deferred Close does not run); otherwise main returns, the
\* deferred Close runs, and the process exits 1 only if Close returned an error.
NMainFinish ==
    /\ npc = "sending"
    /\ sendIdx > Len(processRet.list.elems)
    /\ npc' = "exited"
    /\ IF sendErrors
       THEN /\ nexit' = 1
            /\ UNCHANGED <<nclosed, nerrors>>
       ELSE \E clientCloseFails \in BOOLEAN :
              /\ nclosed' = Append(nclosed, [clientCloseFails |-> clientCloseFails])
              /\ nerrors' = IF clientCloseFails THEN nerrors + 1 ELSE nerrors
              /\ nexit' = IF CloseReturnsError(clientCloseFails) THEN 1 ELSE 0
    /\ UNCHANGED <<nfetcher, nenv, ncfg, nstderr, fetchCalls, pages, fIterEnd, notifications,
                   fetchRet, processRet, sendIdx, sent, sendErrors,
                   assetVars, amainVars, fnVars>>

NMainFetchRecord ==
    /\ \E resp \in RawNotifications : FetchRecord(resp)
    /\ UNCHANGED <<assetVars, amainVars, fnVars>>

NMainFetchDone == FetchDone /\ UNCHANGED <<assetVars, amainVars, fnVars>>
NMainFetchError == FetchError /\ UNCHANGED <<assetVars, amainVars, fnVars>>

NotifIdle ==
    /\ npc = "off"
    /\ nenv = NoNEnv
    /\ ncfg = NoNConfig
    /\ nstderr = 0
    /\ nerrors = 0
    /\ nfetcher = "none"
    /\ fetchCalls = 0
    /\ pages = <<>>
    /\ fIterEnd = "none"
    /\ notifications = NilSlice
    /\ fetchRet = NoNRet
    /\ processRet = NoNRet
    /\ sendIdx = 0
    /\ sent = <<>>
    /\ sendErrors = FALSE
    /\ nexit = NotExited
    /\ nclosed = <<>>

NotifStart ==
    /\ npc = "start"
    /\ nenv = NoNEnv
    /\ ncfg = NoNConfig
    /\ nstderr = 0
    /\ nerrors = 0
    /\ nfetcher = "none"
    /\ fetchCalls = 0
    /\ pages = <<>>
    /\ fIterEnd = "none"
    /\ notifications = NilSlice
    /\ fetchRet = NoNRet
    /\ processRet = NoNRet
    /\ sendIdx = 0
    /\ sent = <<>>
    /\ sendErrors = FALSE
    /\ nexit = NotExited
    /\ nclosed = <<>>

-----------------------------------------------------------------------------
(* Specifications *)

vars == <<assetVars, amainVars, notifVars, fnVars>>

\* ProcessAssets called directly, over every Config
ProcInit == AssetIdle /\ AMainIdle /\ NotifIdle /\ FnIdle
ProcNext == CallProcessAssets \/ ProcRecord \/ ProcDone \/ ProcError
SpecProc == ProcInit /\ [][ProcNext]_vars

\* the asset pipeline from main
AMainInit == AssetIdle /\ AMainStart /\ NotifIdle /\ FnIdle
AMainNext ==
    \/ AMainGetConfig
    \/ AMainNewFetcher
    \/ AMainCallProcessAssets
    \/ AMainRecord
    \/ AMainDone
    \/ AMainError
    \/ AMainReport
    \/ AMainReturn
SpecAssetMain == AMainInit /\ [][AMainNext]_vars

\* getProjectID applied to every parent reference within the bounds
ProjectIDInit == AssetIdle /\ AMainIdle /\ NotifIdle /\ ProjectIDStart
ProjectIDNext == ApplyGetProjectID
SpecProjectID == ProjectIDInit /\ [][ProjectIDNext]_vars

\* getIPAddress applied to every record of IPAddressInputs
IPAddressInit ==
    /\ AssetIdle /\ AMainIdle /\ NotifIdle
    /\ fnpc = "in"
    /\ fnIn \in IPAddressInputs
    /\ fnOut = <<>>
SpecIPAddress == IPAddressInit /\ [][ApplyGetIPAddress]_vars

\* the filters applied to every call of FilterInputs
FilterInit ==
    /\ AssetIdle /\ AMainIdle /\ NotifIdle
    /\ fnpc = "in"
    /\ fnIn \in FilterInputs
    /\ fnOut = <<>>
SpecFilter == FilterInit /\ [][ApplyFilters]_vars

\* splitString applied to every pair of SplitInputs
SplitInit ==
    /\ AssetIdle /\ AMainIdle /\ NotifIdle
    /\ fnpc = "in"
    /\ fnIn \in SplitInputs
    /\ fnOut = <<>>
SpecSplit == SplitInit /\ [][ApplySplitString]_vars

\* LoadConfig applied to every environment of LoadConfigEnvs
LoadConfigInit ==
    /\ AssetIdle /\ AMainIdle /\ NotifIdle
    /\ fnpc = "in"
    /\ fnIn \in LoadConfigEnvs
    /\ fnOut = <<>>
SpecLoadConfig == LoadConfigInit /\ [][ApplyLoadConfig]_vars

\* ProcessNotifications applied to every call of ProcessInputs
ProcessInit ==
    /\ AssetIdle /\ AMainIdle /\ NotifIdle
    /\ fnpc = "in"
    /\ fnIn \in ProcessInputs
    /\ fnOut = <<>>
SpecProcess == ProcessInit /\ [][ApplyProcessNotifications]_vars

\* outputToStdOutTable applied to every list of TableInputs
TableInit ==
    /\ AssetIdle /\ AMainIdle /\ NotifIdle
    /\ fnpc = "in"
    /\ fnIn \in TableInputs
    /\ fnOut = <<>>
SpecTable == TableInit /\ [][ApplyOutputTable]_vars

\* outputToStdOutJSON applied to every slice of JSONInputs
JSONInit ==
    /\ AssetIdle /\ AMainIdle /\ NotifIdle
    /\ fnpc = "in"
    /\ fnIn \in JSONInputs
    /\ fnOut = <<>>
SpecJSON == JSONInit /\ [][ApplyOutputJSON]_vars

\* the asset pipeline from main, where the process keeps running and every
\* call of assets.Next() returns
SpecAssetMainFair == AMainInit /\ [][AMainNext]_vars /\ WF_vars(AMainNext)

\* the notification pipeline from main
NotifInit == AssetIdle /\ AMainIdle /\ NotifStart /\ FnIdle
NotifNext ==
    \/ NMainLoadConfig
    \/ NMainNewFetcher
    \/ NMainCallFetch
    \/ NMainFetchRecord
    \/ NMainFetchDone
    \/ NMainFetchError
    \/ NMainProcess
    \/ NMainSend
    \/ NMainFinish
SpecNotif == NotifInit /\ [][NotifNext]_vars

-----------------------------------------------------------------------------
(* Properties of ProcessAssets, checked under SpecProc *)

Range(s) == {s[i] : i \in 1..Len(s)}

RECURSIVE MapProcessed(_)
MapProcessed(s) ==
    IF s = <<>> THEN <<>> ELSE <<ToProcessedAsset(Head(s))>> \o MapProcessed(Tail(s))

\* C1: when the source yields N >= 0 records and then an error other than the
\* end marker, ProcessAssets returns a non-nil error and no result list, however
\* many of the N records had passed the filters.
C1_ErrorReturnsNoList ==
    (procRet.returned /\ iterEnd = "error")
        => /\ procRet.err
           /\ procRet.list.isNil
           /\ Len(procRet.list.elems) = 0

\* the source failed after records were read and some of them had been kept
C1_Witness ==
    /\ procRet.returned
    /\ iterEnd = "error"
    /\ Len(read) = MaxRecords
    /\ Len(processedResults.elems) > 0
    /\ Len(processedResults.elems) < Len(read)

\* the inclusion rule as the claim words it, over the parsed lists
C2_Rule(c, asset) ==
    LET pid == getProjectID(asset)
        excl == Range(splitString(c.ExcludeProjects, <<",">>))
        incl == Range(splitString(c.IncludeProjects, <<",">>))
    IN /\ ~(c.ExcludeReserved /\ asset.state = "RESERVED")
       /\ pid \notin excl
       /\ (incl = {} \/ pid \in incl)

\* C2: a record read before exhaustion is emitted if and only if it is not
\* (excludeReserved and in state "RESERVED"), its project identifier is not in
\* the parsed exclude-list, and the parsed include-list is empty or holds it.
C2_InclusionRule ==
    [][ Len(read') = Len(read) + 1 =>
          LET asset == read'[Len(read')]
          IN IF C2_Rule(cfg, asset)
             THEN processedResults'.elems =
                      Append(processedResults.elems, ToProcessedAsset(asset))
             ELSE processedResults' = processedResults ]_vars

\* one record kept and one dropped with all three filters configured
C2_Witness ==
    /\ cfg.ExcludeReserved
    /\ includeProjects # <<>>
    /\ excludeProjects # <<>>
    /\ Len(read) = 2
    /\ read[1].state = "RESERVED"
    /\ Len(processedResults.elems) = 1

IncludedHere(asset) == Include(cfg, excludeProjects, includeProjects, asset)

\* C3: the output is an order-preserving subsequence of the input: the i-th
\* emitted ProcessedAsset is the mapping of the i-th included record, nothing is
\* emitted twice or reordered, and the output is no longer than the input read.
C3_OrderPreservingSubsequence ==
    ppc # "idle" =>
        /\ processedResults.elems = MapProcessed(SelectSeq(read, IncludedHere))
        /\ Len(processedResults.elems) <= Len(read)
        /\ (procRet.returned /\ ~procRet.err) => procRet.list = processedResults

\* a successful run that kept two different records, in source order
C3_Witness ==
    /\ procRet.returned
    /\ ~procRet.err
    /\ Len(read) = 2
    /\ Len(procRet.list.elems) = 2
    /\ read[1] # read[2]
    /\ procRet.list.elems[1].Name = read[1].displayName
    /\ procRet.list.elems[2].Name = read[2].displayName
    /\ read[1].displayName # read[2].displayName

\* C4: with both parsed lists non-empty, a record whose project identifier is in
\* both lists is dropped: exclusion wins before the include-list is consulted.
C4_ExcludeBeforeInclude ==
    (excludeProjects # <<>> /\ includeProjects # <<>>) =>
        \A i \in 1..Len(read) :
            LET pid == getProjectID(read[i])
            IN (pid \in Range(excludeProjects) /\ pid \in Range(includeProjects))
                 => \A j \in 1..Len(processedResults.elems) :
                        processedResults.elems[j].Project # pid

\* a record listed in both lists was read and dropped while another was kept
C4_Witness ==
    /\ excludeProjects # <<>>
    /\ includeProjects # <<>>
    /\ Len(read) = 2
    /\ getProjectID(read[1]) \in Range(excludeProjects) \cap Range(includeProjects)
    /\ Len(processedResults.elems) = 1
    /\ ppc = "returned"

-----------------------------------------------------------------------------
(* Properties of the asset pipeline's main, checked under SpecAssetMain *)

\* C5: when ProcessAssets returns a fetch error, the run reports the error and
\* exits with non-zero status at once, without invoking the renderer.
C5_FetchErrorExitsWithoutRender ==
    (procRet.returned /\ procRet.err) =>
        /\ ~rendered.called
        /\ apc \in {"processing", "exited"}
        /\ (apc = "exited" => aexit = 1)

-----------------------------------------------------------------------------
(* Properties of the notification pipeline, checked under SpecNotif *)

SendLoopOver == npc = "exited" /\ processRet.returned /\ ~processRet.err

\* C6: every ProcessedNotification the processor returned is passed to
\* SendNotification exactly once, in list order, and a failed send never
\* prevents the send attempt of a later item.
C6_EverySentOnceInOrder ==
    /\ Len(sent) <= Len(processRet.list.elems)
    /\ \A i \in 1..Len(sent) : sent[i].item = processRet.list.elems[i]
    /\ SendLoopOver => Len(sent) = Len(processRet.list.elems)
    /\ \A i \in 1..Len(sent) :
           (~sent[i].ok /\ i < Len(processRet.list.elems))
               => (Len(sent) > i \/ (npc = "sending" /\ sendIdx = i + 1))

\* three items were sent although the first send failed
C6_Witness ==
    /\ SendLoopOver
    /\ Len(sent) = 3
    /\ ~sent[1].ok
    /\ sent[2].ok
    /\ sent[1].item # sent[2].item

AnySendFailed == \E i \in 1..Len(sent) : ~sent[i].ok

ConfigFailed == npc # "start" /\ LoadConfig(nenv).err # ""
StageFailed ==
    \/ ConfigFailed
    \/ nfetcher = "failed"
    \/ fIterEnd = "error"
    \/ (processRet.returned /\ processRet.err)

\* C8: no notification is sent unless configuration loading, fetcher creation,
\* FetchNotifications and ProcessNotifications all succeeded; a failure at any
\* of these stages ends the run with non-zero exit status and no send attempt,
\* and a configuration failure precedes any fetch attempt.
C8_StageOrdering ==
    /\ Len(sent) > 0 =>
         /\ LoadConfig(nenv).err = ""
         /\ nfetcher = "created"
         /\ fetchRet.returned /\ ~fetchRet.err /\ fIterEnd = "done"
         /\ processRet.returned /\ ~processRet.err
    /\ StageFailed =>
         /\ sent = <<>>
         /\ npc \in {"fetched", "exited"}
         /\ npc = "fetched" => fIterEnd = "error"
         /\ npc = "exited" => nexit = 1
    /\ ConfigFailed =>
         /\ npc = "exited"
         /\ nstderr = 1
         /\ nfetcher = "none"
         /\ fetchCalls = 0

\* the fetch failed after two notifications had been read, and the run ended
C8_Witness ==
    /\ fIterEnd = "error"
    /\ Len(pages) = 2
    /\ npc = "exited"
    /\ nexit = 1
    /\ sent = <<>>

\* C9: FetchNotifications is all-or-nothing: an iterator error after any number
\* of accumulated notifications gives a non-nil error and no notifications; the
\* accumulated list, in iteration order, is returned only at the end marker.
C9_FetchAllOrNothing ==
    /\ ~fetchRet.returned => (fIterEnd = "none" /\ fetchRet.list = NilSlice)
    /\ fetchRet.returned =>
         /\ fIterEnd \in {"done", "error"}
         /\ fIterEnd = "error" =>
              (fetchRet.err /\ fetchRet.list.isNil /\ fetchRet.list.elems = <<>>)
         /\ fIterEnd = "done" => (~fetchRet.err /\ fetchRet.list.elems = pages)
         /\ ~fetchRet.err => fIterEnd = "done"

\* the iterator failed after two different notifications had been accumulated
C9_Witness ==
    /\ fetchRet.returned
    /\ fetchRet.err
    /\ Len(notifications.elems) = 2
    /\ notifications.elems[1] # notifications.elems[2]

-----------------------------------------------------------------------------
(* Properties of getProjectID, checked under SpecProjectID *)

\* the text after the last "/" of a path, the whole path when it has none
AfterLastSlash(path) ==
    LET slashes == {i \in 1..Len(path) : path[i] = "/"}
        last == IF slashes = {} THEN 0 ELSE CHOOSE i \in slashes : \A j \in slashes : j <= i
    IN [k \in 1..(Len(path) - last) |-> path[last + k]]

\* C10: getProjectID gives "N/A" when the parent type is not exactly the project
\* type, whatever the path; otherwise the text after the last "/" of the parent
\* path: the whole path when it has no "/", and the empty string when the path
\* is empty, ends in "/" or consists of "/" only.
C10_ProjectID ==
    fnpc = "out" =>
        LET path == fnIn.parentFullResourceName
        IN IF fnIn.parentAssetType # ProjectAssetType
           THEN fnOut = NA
           ELSE /\ fnOut = AfterLastSlash(path)
                /\ (\A i \in 1..Len(path) : path[i] # "/") => fnOut = path
                /\ (path = <<>> \/ path[Len(path)] = "/") => fnOut = <<>>

\* a project parent whose path ends in "/" after a segment: the empty string
C10_Witness ==
    /\ fnpc = "out"
    /\ fnIn.parentAssetType = ProjectAssetType
    /\ fnIn.parentFullResourceName = <<"b", "/", "a", "/">>
    /\ fnOut = <<>>


-----------------------------------------------------------------------------
(* Properties of getIPAddress, checked under SpecIPAddress *)

\* the mapping exists, has the key "address", and the key's value is a
\* non-null string
HasStringAddress(asset) ==
    /\ asset.additionalAttributes.kind \notin {"nomap", "nofields"}
    /\ asset.additionalAttributes.kind # "nokey"
    /\ asset.additionalAttributes.kind \notin {"null", "nullvalue"}
    /\ asset.additionalAttributes.kind = "string"

\* C11: getIPAddress gives the value of the "address" attribute verbatim when
\* the attribute mapping exists, has that key, and the value is a non-null
\* string; in every other case (mapping absent, fields absent, key missing,
\* null value, non-string value) it gives "N/A".
C11_IPAddress ==
    fnpc = "out" =>
        /\ HasStringAddress(fnIn) => fnOut = fnIn.additionalAttributes.value
        /\ ~HasStringAddress(fnIn) => fnOut = NA

\* the key is present with a number for a value: "N/A", not the digits
C11_Witness ==
    /\ fnpc = "out"
    /\ fnIn.additionalAttributes = [kind |-> "number", value |-> <<"1">>]
    /\ fnOut = NA


-----------------------------------------------------------------------------
(* Properties of splitString, checked under SpecSplit *)

\* where the separator occurs in s
Occurrences(s, sep) ==
    {j \in 1..(Len(s) - Len(sep) + 1) : SubSeq(s, j, j + Len(sep) - 1) = sep}

\* where s is cut: at every occurrence of the separator that does not overlap
\* a cut to its left
Cuts(s, sep) ==
    CHOOSE C \in SUBSET Occurrences(s, sep) :
        \A j \in Occurrences(s, sep) :
            j \in C <=> ~(\E c \in C : c < j /\ j < c + Len(sep))

\* the piece of s that starts at position a: up to the next cut or the end
PieceEnd(s, sep, a) ==
    LET later == {c \in Cuts(s, sep) : c >= a}
    IN IF later = {} THEN Len(s) ELSE (CHOOSE c \in later : \A d \in later : c <= d) - 1

\* the piece with the whitespace at its two ends removed
Trimmed(s, from, to) ==
    LET inked == {i \in from..to : ~IsSpace(s[i])}
    IN IF inked = {} THEN <<>>
       ELSE SubSeq(s, CHOOSE i \in inked : \A j \in inked : i <= j,
                      CHOOSE i \in inked : \A j \in inked : j <= i)

\* the starts of the pieces that are not blank
KeptStarts(s, sep) ==
    {a \in {1} \cup {c + Len(sep) : c \in Cuts(s, sep)} :
        Trimmed(s, a, PieceEnd(s, sep, a)) # <<>>}

\* s is zero or more copies of the separator
OnlySeparators(s, sep) ==
    /\ Len(s) % Len(sep) = 0
    /\ \A i \in 1..Len(s) : s[i] = sep[((i - 1) % Len(sep)) + 1]

\* C12: splitString gives exactly the whitespace-trimmed non-empty pieces of the
\* input cut at the separator, in input order; no element is empty or
\* whitespace-only, and an input that is blank, whitespace-only or made of
\* separators only gives the empty sequence.
C12_SplitString ==
    fnpc = "out" =>
        LET s == fnIn.s
            sep == fnIn.separator
            kept == KeptStarts(s, sep)
        IN /\ Len(fnOut) = Cardinality(kept)
           /\ \A a \in kept :
                fnOut[Cardinality({b \in kept : b < a}) + 1]
                    = Trimmed(s, a, PieceEnd(s, sep, a))
           /\ \A i \in 1..Len(fnOut) : \E k \in 1..Len(fnOut[i]) : ~IsSpace(fnOut[i][k])
           /\ (\A i \in 1..Len(s) : IsSpace(s[i])) => fnOut = <<>>
           /\ OnlySeparators(s, sep) => fnOut = <<>>

\* pieces with blanks around them, an empty piece between two separators
C12_Witness ==
    /\ fnpc = "out"
    /\ fnIn = [s |-> <<" ", "b", ",", ",", "a">>, separator |-> <<",">>]
    /\ fnOut = <<<<"b">>, <<"a">>>>


-----------------------------------------------------------------------------
(* Properties of GetConfig, checked under SpecAssetMain *)

\* GetConfig has run and ended the process in log.Fatal: exit status 1, no
\* configuration, nothing else attempted
GetConfigFatal ==
    /\ apc = "exited"
    /\ aexit = 1
    /\ cfg = NoConfig
    /\ aerrors = 0
    /\ ~rendered.called

\* C13: GetConfig never returns a configuration with both ExcludeProjects and
\* IncludeProjects non-empty; when both environment values are non-empty the
\* process ends fatally with a non-zero exit status instead.
C13_ListsMutuallyExclusive ==
    /\ ~(cfg.ExcludeProjects # <<>> /\ cfg.IncludeProjects # <<>>)
    /\ (apc # "start" /\ env.excludeProjects.val # <<>> /\ env.includeProjects.val # <<>>)
            => GetConfigFatal

\* both lists given with a valid organization and format: fatal
C13_Witness ==
    /\ env.orgID = SetTo(<<"o">>)
    /\ env.format = Unset
    /\ env.excludeProjects = SetTo(<<"a">>)
    /\ env.includeProjects = SetTo(<<"a">>)
    /\ GetConfigFatal

\* C14: when the format variable is unset the returned OutputFormat is "table";
\* when it is set to a value outside {table, json} GetConfig ends the process
\* fatally and returns nothing.
C14_OutputFormat ==
    apc # "start" =>
        /\ (~env.format.set /\ ~GetConfigFatal) => cfg.OutputFormat = FormatTable
        /\ (env.format.set /\ env.format.val \notin {FormatTable, FormatJSON})
                => GetConfigFatal


-----------------------------------------------------------------------------
(* Properties of LoadConfig, checked under SpecLoadConfig *)

\* the digits of a decimal text without its sign and leading zeros
RECURSIVE StripZeros(_)
StripZeros(d) == IF d # <<>> /\ Head(d) = "0" THEN StripZeros(Tail(d)) ELSE d

\* a <= b for two runs of digits of one length, read as numbers
DigitsLE(a, b) ==
    \/ a = b
    \/ \E i \in 1..Len(a) :
          /\ DigitVal(a[i]) < DigitVal(b[i])
          /\ \A j \in 1..(i - 1) : a[j] = b[j]

\* the text is a base-10 integer from -2^63 to 2^63 - 1
IsInt64Text(s) ==
    LET signed == s # <<>> /\ Head(s) \in {"+", "-"}
        d == IF signed THEN Tail(s) ELSE s
        m == StripZeros(d)
        limit == IF signed /\ Head(s) = "-"
                 THEN <<"9", "2", "2", "3", "3", "7", "2", "0", "3", "6", "8", "5", "4", "7", "7", "5", "8", "0", "8">>
                 ELSE <<"9", "2", "2", "3", "3", "7", "2", "0", "3", "6", "8", "5", "4", "7", "7", "5", "8", "0", "7">>
    IN /\ d # <<>>
       /\ \A i \in 1..Len(d) : IsDigit(d[i])
       /\ Len(m) < Len(limit) \/ (Len(m) = Len(limit) /\ DigitsLE(m, limit))

\* the variable is set to a non-empty value
Given(v) == v.set /\ v.val # <<>>

\* C15: LoadConfig returns a configuration only when the organization id, the
\* chat token, the chat channel id and the maximum age are all set and
\* non-empty and the age is a base-10 64-bit integer; otherwise it returns an
\* error and no configuration, and the error names the first failing variable
\* in that order.
C15_LoadConfigMandatory ==
    fnpc = "out" =>
        LET e == fnIn
            ageErrors == {"ADV_NOTIF_MAX_NOTIFICATION_AGE_SECONDS",
                          "ADV_NOTIF_MAX_NOTIFICATION_AGE_SECONDS must be a valid integer"}
        IN /\ fnOut.err = "" <=>
                /\ Given(e.orgID) /\ Given(e.slackToken) /\ Given(e.slackChannelID)
                /\ Given(e.maxAge) /\ IsInt64Text(e.maxAge.val)
           /\ fnOut.err # "" => fnOut.cfg = NoNConfig
           /\ fnOut.err = "" =>
                /\ fnOut.cfg.OrgID = e.orgID.val
                /\ fnOut.cfg.SlackToken = e.slackToken.val
                /\ fnOut.cfg.SlackChannelID = e.slackChannelID.val
           /\ ~Given(e.orgID) => fnOut.err = "ADV_NOTIF_ORG_ID"
           /\ (Given(e.orgID) /\ ~Given(e.slackToken)) => fnOut.err = "ADV_NOTIF_SLACK_TOKEN"
           /\ (Given(e.orgID) /\ Given(e.slackToken) /\ ~Given(e.slackChannelID))
                => fnOut.err = "ADV_NOTIF_SLACK_CHANNEL_ID"
           /\ (Given(e.orgID) /\ Given(e.slackToken) /\ Given(e.slackChannelID)
                    /\ ~(Given(e.maxAge) /\ IsInt64Text(e.maxAge.val)))
                => fnOut.err \in ageErrors

\* the token is set but empty and the age is not a number: the token is the
\* variable reported
C15_Witness ==
    /\ fnpc = "out"
    /\ fnIn.orgID = SetTo(<<"o">>)
    /\ fnIn.slackToken = SetTo(<<>>)
    /\ fnIn.slackChannelID = Unset
    /\ fnIn.maxAge = SetTo(<<"x">>)
    /\ fnOut = [err |-> "ADV_NOTIF_SLACK_TOKEN", cfg |-> NoNConfig]

\* C16: for every value v of the maximum-age variable that is a signed 64-bit
\* integer, LoadConfig succeeds with MaxNotificationAgeSeconds equal to v + 600
\* in 64-bit wrap-around arithmetic, and that value is strictly greater than v.
C16_SafetyMargin ==
    (/\ fnpc = "out"
     /\ Given(fnIn.orgID) /\ Given(fnIn.slackToken) /\ Given(fnIn.slackChannelID)
     /\ IsInt64Text(fnIn.maxAge.val)) =>
        LET v == ParseInt(fnIn.maxAge.val).val
        IN /\ fnOut.err = ""
           /\ fnOut.cfg.MaxNotificationAgeSeconds = Add64(v, Int64(600))
           /\ Less64(v, fnOut.cfg.MaxNotificationAgeSeconds)


-----------------------------------------------------------------------------
(* Properties of ProcessNotifications, checked under SpecProcess *)

\* an instant in microseconds since the epoch
Micros(t) == t.sec * 1000000 + t.usec

\* the positions in the input of the notifications created strictly after
\* now - maxAge
InWindow ==
    {i \in 1..Len(fnIn.ns) :
        Micros(fnIn.ns[i].createTime) > Micros(Now) - fnIn.maxAge * 1000000}

\* the place in the output of the i-th input notification, when it is in the
\* window
OutIndex(i) == Cardinality({j \in InWindow : j < i}) + 1

\* C17: ProcessNotifications emits a notification exactly when its creation
\* time is strictly after now - maxAge, with maxAge taken as configured and no
\* further margin: one created at the cutoff is dropped, one created a
\* microsecond later is kept, and a dropped notification raises no error.
C17_AgeWindow ==
    fnpc = "out" =>
        LET ns == fnIn.ns
            cutoff == Micros(Now) - fnIn.maxAge * 1000000
            emitted == {fnOut.list[k].OriginalName : k \in 1..Len(fnOut.list)}
        IN /\ ~fnOut.err
           /\ Len(fnOut.list) = Cardinality(InWindow)
           /\ \A i \in InWindow : fnOut.list[OutIndex(i)].OriginalName = ns[i].name
           /\ \A i \in 1..Len(ns) :
                /\ Micros(ns[i].createTime) = cutoff => ns[i].name \notin emitted
                /\ Micros(ns[i].createTime) = cutoff + 1 => ns[i].name \in emitted

\* a notification created exactly 600 seconds ago under a maximum age of 600
\* is dropped, the one before it is emitted, and there is no error
C17_Witness ==
    /\ fnpc = "out"
    /\ fnIn.maxAge = 600
    /\ Len(fnIn.ns) = 2
    /\ fnIn.ns[2].name = "n"
    /\ fnIn.ns[2].createTime = Time(Now.sec - 600, 0)
    /\ Len(fnOut.list) = 1
    /\ fnOut.list[1].OriginalName = "recent"
    /\ ~fnOut.err

\* what a part contributes to the body: its converted text, "N/A" when the
\* conversion fails
PartText(part) == IF part.fails THEN NA ELSE part.markdown

\* where the text of part k starts in the combined body, less one
RECURSIVE PartOffset(_, _)
PartOffset(parts, k) ==
    IF k = 1 THEN 0
    ELSE PartOffset(parts, k - 1) + Len(PartText(parts[k - 1])) + Len(BodySeparator)

\* the text the combined body holds at the position of part k
BodyAt(body, parts, k) ==
    SubSeq(body, PartOffset(parts, k) + 1, PartOffset(parts, k) + Len(PartText(parts[k])))

\* C18: for a notification with n >= 1 parts the combined body is the converted
\* part bodies in part order with the separator "\n\n---\n\n" between
\* consecutive parts, n - 1 times in all, and none before the first part or
\* after the last.
C18_BodyCombination ==
    fnpc = "out" =>
        \A i \in InWindow :
            LET parts == fnIn.ns[i].parts
                n == Len(parts)
                body == fnOut.list[OutIndex(i)].FormattedBody
            IN n >= 1 =>
                /\ Len(body) = PartOffset(parts, n) + Len(PartText(parts[n]))
                /\ \A k \in 1..n : BodyAt(body, parts, k) = PartText(parts[k])
                /\ \A k \in 1..(n - 1) :
                      SubSeq(body, PartOffset(parts, k + 1) - Len(BodySeparator) + 1,
                             PartOffset(parts, k + 1)) = BodySeparator
                /\ n = 1 => body = PartText(parts[1])

\* three parts, the middle one converting to the empty text: two separators,
\* one right after the other
C18_Witness ==
    /\ fnpc = "out"
    /\ fnIn.maxAge = 660
    /\ Len(fnIn.ns) = 1
    /\ fnIn.ns[1].createTime = Time(Now.sec - 1, 0)
    /\ fnIn.ns[1].parts = <<PartA, PartEmpty, PartB>>
    /\ Len(fnOut.list) = 1
    /\ fnOut.list[1].FormattedBody = <<"A">> \o BodySeparator \o BodySeparator \o <<"B">>

\* C19: when the conversion of one part fails, that part's position in the
\* combined body holds "N/A", the other parts keep their converted text, and
\* the notification is neither dropped nor turned into an error.
C19_ConversionDegrades ==
    fnpc = "out" =>
        /\ ~fnOut.err
        /\ \A i \in InWindow :
            LET parts == fnIn.ns[i].parts
                out == fnOut.list[OutIndex(i)]
            IN /\ OutIndex(i) <= Len(fnOut.list)
               /\ out.OriginalName = fnIn.ns[i].name
               /\ Len(parts) >= 1 =>
                    Len(out.FormattedBody)
                        = PartOffset(parts, Len(parts)) + Len(PartText(parts[Len(parts)]))
               /\ \A k \in 1..Len(parts) :
                    /\ parts[k].fails => BodyAt(out.FormattedBody, parts, k) = NA
                    /\ ~parts[k].fails => BodyAt(out.FormattedBody, parts, k) = parts[k].markdown

\* the second of three parts fails to convert: "N/A" between the two others
C19_Witness ==
    /\ fnpc = "out"
    /\ fnIn.maxAge = 600
    /\ Len(fnIn.ns) = 1
    /\ fnIn.ns[1].createTime = Time(Now.sec - 1, 0)
    /\ fnIn.ns[1].parts = <<PartA, PartBad, PartB>>
    /\ ~fnOut.err
    /\ Len(fnOut.list) = 1
    /\ fnOut.list[1].FormattedBody = <<"A">> \o BodySeparator \o NA \o BodySeparator \o <<"B">>


-----------------------------------------------------------------------------
(* Properties of outputToStdOutTable, checked under SpecTable *)

\* the column titles, in the order of the claim
ColumnTitles ==
    << <<"D", "i", "s", "p", "l", "a", "y", " ", "N", "a", "m", "e">>,
       <<"L", "o", "c", "a", "t", "i", "o", "n">>,
       <<"P", "r", "o", "j", "e", "c", "t", " ", "I", "D">>,
       <<"I", "P", " ", "A", "d", "d", "r", "e", "s", "s">>,
       <<"S", "t", "a", "t", "e">>,
       <<"C", "r", "e", "a", "t", "e", "d", " ", "A", "t">> >>

\* C20: outputToStdOutTable always writes the header row with the columns
\* Display Name, Location, Project ID, IP Address, State, Created At in that
\* order, then a separator row, even for an empty list, and then exactly one
\* row per ProcessedAsset in input order with the fields in that column order.
C20_TableRendering ==
    fnpc = "out" =>
        /\ Len(fnOut) = 2 + Len(fnIn)
        /\ fnOut[1] = ColumnTitles
        /\ Len(fnOut[2]) = Len(ColumnTitles)
        /\ \A c \in 1..Len(fnOut[2]) :
              /\ fnOut[2][c] # <<>>
              /\ \A k \in 1..Len(fnOut[2][c]) : fnOut[2][c][k] = "-"
        /\ \A i \in 1..Len(fnIn) :
              fnOut[i + 2] = <<fnIn[i].Name, fnIn[i].Location, fnIn[i].Project,
                               fnIn[i].IPAddress, fnIn[i].Status, fnIn[i].CreatedAt>>

\* two assets, the second with an empty location and no IP address: four rows
C20_Witness ==
    /\ fnpc = "out"
    /\ Len(fnIn) = 2
    /\ fnIn[1].Name = <<"b">>
    /\ fnIn[2].Name = <<"a">>
    /\ fnIn[2].Location = <<>>
    /\ fnIn[2].IPAddress = NA
    /\ Len(fnOut) = 4
    /\ fnOut[4] = <<<<"a">>, <<>>, fnIn[2].Project, NA, <<"S">>, <<"2", "0", ":", "0", "1">>>>


-----------------------------------------------------------------------------
(* Properties of outputToStdOutJSON, checked under SpecJSON *)

\* a JSON string read from the byte after its opening quote: the text it
\* stands for and the position after its closing quote
RECURSIVE ReadString(_, _, _)
ReadString(text, i, acc) ==
    IF text[i] = "\"" THEN [v |-> acc, next |-> i + 1]
    ELSE IF text[i] = "\\"
    THEN ReadString(text, i + 2, Append(acc, IF text[i + 1] = "n" THEN "\n" ELSE text[i + 1]))
    ELSE ReadString(text, i + 1, Append(acc, text[i]))

\* the tokens of a JSON text: strings, null, and the punctuation marks
RECURSIVE Lex(_, _)
Lex(text, i) ==
    LET inked == {j \in i..Len(text) : text[j] \notin {" ", "\n"}}
        k == CHOOSE j \in inked : \A h \in inked : j <= h
    IN IF inked = {} THEN <<>>
       ELSE IF text[k] = "\""
       THEN LET r == ReadString(text, k + 1, <<>>)
            IN <<[kind |-> "string", v |-> r.v]>> \o Lex(text, r.next)
       ELSE IF text[k] = "n" THEN <<[kind |-> "null", v |-> <<>>]>> \o Lex(text, k + 4)
       ELSE <<[kind |-> text[k], v |-> <<>>]>> \o Lex(text, k + 1)

\* the members of an object read from the token after "{" or ",": the
\* (key, value) pairs and the position after "}"
RECURSIVE ReadMembers(_, _, _)
ReadMembers(toks, i, acc) ==
    LET members == acc \cup {<<toks[i].v, toks[i + 2].v>>}
    IN IF toks[i + 3].kind = "}" THEN [obj |-> members, next |-> i + 4]
       ELSE ReadMembers(toks, i + 4, members)

\* the objects of an array read from a "{": the list of them
RECURSIVE ReadObjects(_, _, _)
ReadObjects(toks, i, acc) ==
    LET r == ReadMembers(toks, i + 1, {})
    IN IF toks[r.next].kind = "]" THEN Append(acc, r.obj)
       ELSE ReadObjects(toks, r.next + 1, Append(acc, r.obj))

\* the JSON value of a text: an array of objects, or something else
ParseJSON(text) ==
    LET toks == Lex(text, 1)
    IN IF toks[1].kind # "[" THEN [isArray |-> FALSE, elems |-> <<>>]
       ELSE IF toks[2].kind = "]" THEN [isArray |-> TRUE, elems |-> <<>>]
       ELSE [isArray |-> TRUE, elems |-> ReadObjects(toks, 2, <<>>)]

\* the value of a key in a parsed object
Member(obj, key) == (CHOOSE m \in obj : m[1] = key)[2]

\* C21: for every list of ProcessedAsset, the empty list included, parsing
\* the output of outputToStdOutJSON gives an array of as many elements, in the
\* same order, whose fields name, location, status, ipAddress, project and
\* createdAt equal the input's; the empty list is written as an empty array.
C21_JSONRoundTrip ==
    fnpc = "out" =>
        LET parsed == ParseJSON(fnOut)
        IN /\ parsed.isArray
           /\ Len(parsed.elems) = Len(fnIn.elems)
           /\ \A i \in 1..Len(fnIn.elems) :
                /\ Cardinality(parsed.elems[i]) = 6
                /\ Member(parsed.elems[i], <<"n", "a", "m", "e">>) = fnIn.elems[i].Name
                /\ Member(parsed.elems[i], <<"l", "o", "c", "a", "t", "i", "o", "n">>) = fnIn.elems[i].Location
                /\ Member(parsed.elems[i], <<"s", "t", "a", "t", "u", "s">>) = fnIn.elems[i].Status
                /\ Member(parsed.elems[i], <<"i", "p", "A", "d", "d", "r", "e", "s", "s">>) = fnIn.elems[i].IPAddress
                /\ Member(parsed.elems[i], <<"p", "r", "o", "j", "e", "c", "t">>) = fnIn.elems[i].Project
                /\ Member(parsed.elems[i], <<"c", "r", "e", "a", "t", "e", "d", "A", "t">>) = fnIn.elems[i].CreatedAt


-----------------------------------------------------------------------------
(* Properties of the fetcher's Close in the notification main, checked under
   SpecNotif *)

\* C22: if closing the notification fetcher fails, the process exits with a
\* non-zero status.
C22_CloseFailureExitsNonZero ==
    (/\ npc = "exited"
     /\ \E k \in 1..Len(nclosed) : nclosed[k].clientCloseFails) => nexit # 0

\* C29: once the notification fetcher has been created, its Close is called
\* before the process ends, on every path: fetch failure, processing failure,
\* send failures, and full success.
C29_CloseBeforeExit ==
    (npc = "exited" /\ nfetcher = "created") => Len(nclosed) > 0


-----------------------------------------------------------------------------
(* The pull protocol of ProcessAssets, checked under SpecAssetMainFair *)

\* Next has been called once per record read, and once more when it has
\* returned the end marker or an error; every record read was counted once;
\* after the end marker or an error ProcessAssets has returned
PullProtocol ==
    /\ nextCalls = Len(read) + (IF iterEnd = "none" THEN 0 ELSE 1)
    /\ totalAssets = Len(read)
    /\ iterEnd # "none" => ppc = "returned"
    /\ (ppc = "returned" /\ iterEnd = "done") => nextCalls = Len(read) + 1

\* a step calls Next at most once, and not at all once Next has returned the
\* end marker or an error
OneCallAtATime ==
    /\ nextCalls' \in {nextCalls, nextCalls + 1}
    /\ iterEnd # "none" => (nextCalls' = nextCalls /\ read' = read)

\* C23: for every finite source ProcessAssets terminates; it calls Next one
\* call at a time, consumes each record exactly once, and never calls Next
\* again after the end marker or an error: a source of N records and the end
\* marker receives exactly N + 1 calls.
C23_PullProtocol ==
    /\ []PullProtocol
    /\ [][OneCallAtATime]_vars
    /\ (ppc = "loop") ~> (ppc = "returned")

\* two records and then the end marker: three calls
C23_Witness ==
    /\ ppc = "returned"
    /\ iterEnd = "done"
    /\ Len(read) = 2
    /\ nextCalls = 3


-----------------------------------------------------------------------------
(* The summary of ProcessAssets, checked under SpecProc *)

\* C24: on every successful run total_assets is the number of records Next
\* returned, total_filtered is total_assets minus the number of emitted
\* records and is never negative, emitted + total_filtered = total_assets, and
\* the emitted records are those the inclusion rule keeps, whatever the summary.
C24_SummaryCounts ==
    (procRet.returned /\ ~procRet.err) =>
        LET emitted == Len(procRet.list.elems)
            Kept(asset) == C2_Rule(cfg, asset)
        IN /\ summary.logged
           /\ summary.total_assets = Len(read)
           /\ summary.total_filtered = summary.total_assets - emitted
           /\ summary.total_filtered >= 0
           /\ emitted + summary.total_filtered = summary.total_assets
           /\ summary.total_filtered = Cardinality({i \in 1..Len(read) : ~Kept(read[i])})
           /\ procRet.list.elems = MapProcessed(SelectSeq(read, Kept))

\* two records read, one of them dropped: total 2, filtered 1
C24_Witness ==
    /\ procRet.returned
    /\ ~procRet.err
    /\ Len(read) = 2
    /\ Len(procRet.list.elems) = 1
    /\ procRet.list.elems[1].Name = read[2].displayName
    /\ summary = [logged |-> TRUE, total_assets |-> 2, total_filtered |-> 1]


-----------------------------------------------------------------------------
(* Inclusion and the fields no filter reads, checked under SpecProc *)

\* two records agree on lifecycle state, parent type and parent path
SameFilterFields(a, b) ==
    /\ a.state = b.state
    /\ a.parentAssetType = b.parentAssetType
    /\ a.parentFullResourceName = b.parentFullResourceName

\* C25: two records that agree on lifecycle state, parent type and parent path
\* get the same include/drop decision under the same configuration, whatever
\* their name, location, creation time or attributes; a record whose IP address
\* is not derivable is emitted with IPAddress "N/A", not dropped.
C25_NonFilterFieldsIgnored ==
    [][ \A asset \in AssetRecords : read' = Append(read, asset) =>
          LET emitted == Len(processedResults'.elems) = Len(processedResults.elems) + 1
              last == processedResults'.elems[Len(processedResults'.elems)]
          IN /\ emitted \/ processedResults' = processedResults
             /\ \A other \in AssetRecords :
                  SameFilterFields(asset, other) => (emitted <=> C2_Rule(cfg, other))
             /\ (emitted /\ asset.additionalAttributes.kind # "string") => last.IPAddress = NA
             /\ emitted => /\ last.Name = asset.displayName
                           /\ last.Location = asset.location ]_vars

\* two records alike in state and parent but not in name, location, time or
\* attributes, both emitted, the first with IPAddress "N/A"
C25_Witness ==
    /\ Len(read) = 2
    /\ SameFilterFields(read[1], read[2])
    /\ read[1].displayName # read[2].displayName
    /\ read[1].additionalAttributes.kind = "nomap"
    /\ Len(processedResults.elems) = 2
    /\ processedResults.elems[1].IPAddress = NA
    /\ processedResults.elems[2].IPAddress # NA


-----------------------------------------------------------------------------
(* GetConfig and outputToStdOut together, checked under SpecAssetMain *)

\* C26: every OutputFormat value GetConfig accepts is rendered by the matching
\* renderer, table or JSON, and never reaches the "unknown output format"
\* branch of outputToStdOut.
C26_AcceptedFormatHasRenderer ==
    rendered.called =>
        /\ rendered.branch # "default"
        /\ ToLower(cfg.OutputFormat) = FormatTable => rendered.branch = "table"
        /\ ToLower(cfg.OutputFormat) = FormatJSON => rendered.branch = "json"

-----------------------------------------------------------------------------
(* The empty project identifier, checked under SpecFilter *)

\* C27: a record whose derived project identifier is the empty string is never
\* removed by the exclude-list, whatever the exclude-list string, and is always
\* removed when the parsed include-list is non-empty: it is kept exactly when
\* the reserved filter lets it through and the parsed include-list is empty.
C27_EmptyProjectID ==
    (fnpc = "out" /\ getProjectID(fnIn.asset) = <<>>) =>
        LET incl == splitString(fnIn.cfg.IncludeProjects, <<",">>)
            reserved == fnIn.cfg.ExcludeReserved /\ fnIn.asset.state = "RESERVED"
        IN /\ Len(incl) > 0 => ~fnOut
           /\ (Len(incl) = 0 /\ ~reserved) => fnOut

\* an empty project identifier from a path ending in "/", an exclude-list
\* string of separators and blanks only, and the record kept
C27_Witness ==
    /\ fnpc = "out"
    /\ fnIn.asset.parentFullResourceName = <<"p", "/">>
    /\ fnIn.cfg.ExcludeProjects = <<",", " ", ",">>
    /\ fnOut = TRUE

\* an empty project identifier from an empty path, removed by an include-list
C27_WitnessInclude ==
    /\ fnpc = "out"
    /\ fnIn.asset.parentFullResourceName = <<>>
    /\ fnIn.asset.parentAssetType = ProjectAssetType
    /\ fnIn.cfg.IncludeProjects = <<"a", ",", " ">>
    /\ fnIn.cfg.ExcludeProjects = <<>>
    /\ fnOut = FALSE

-----------------------------------------------------------------------------
(* Monotonicity of the filters, checked under SpecProc *)

\* the positions of the records recs that the filters keep under the Config c
\* with its lists parsed to excl and incl
KeptAt(c, excl, incl, recs) ==
    {i \in 1..Len(recs) : Include(c, excl, incl, recs[i])}

\* the records of recs at the positions idx, in the order of recs
RecordsAt(recs, idx) ==
    LET F[n \in 0..Len(recs)] ==
            IF n = 0 THEN <<>>
            ELSE IF n \in idx THEN Append(F[n - 1], recs[n]) ELSE F[n - 1]
    IN F[Len(recs)]

\* C28: for the same input sequence, the output under a Config with
\* excludeReserved turned on, entries added to the exclude-list, or a non-empty
\* include-list in place of an empty one is an order-preserving subsequence of
\* the output under the less restrictive Config: the output is the records at
\* the kept positions, in input order, and every position kept under the more
\* restrictive Config is kept under the less restrictive one.
C28_FilterMonotonicity ==
    (procRet.returned /\ ~procRet.err) =>
        LET keptC == KeptAt(cfg, excludeProjects, includeProjects, read)
        IN /\ procRet.list.elems = MapProcessed(RecordsAt(read, keptC))
           /\ \A exclS \in ListStrings :
                LET exclD == splitString(exclS, <<",">>)
                IN Range(exclD) \subseteq Range(excludeProjects) =>
                   \A inclS \in ListStrings :
                     LET inclD == splitString(inclS, <<",">>)
                     IN (inclD = includeProjects \/ inclD = <<>>) =>
                        \A er \in BOOLEAN :
                          (er => cfg.ExcludeReserved) =>
                             LET d == [cfg EXCEPT !.ExcludeReserved = er,
                                                  !.ExcludeProjects = exclS,
                                                  !.IncludeProjects = inclS]
                             IN keptC \subseteq KeptAt(d, exclD, inclD, read)

\* a run with excludeReserved on, an exclude-list and an include-list that
\* emitted the second of two records, where the Config without any filter
\* emits both
C28_Witness ==
    /\ procRet.returned /\ ~procRet.err
    /\ cfg.ExcludeReserved
    /\ excludeProjects # <<>>
    /\ includeProjects # <<>>
    /\ Len(read) = 2
    /\ procRet.list.elems = <<ToProcessedAsset(read[2])>>
    /\ LET d == [cfg EXCEPT !.ExcludeReserved = FALSE, !.ExcludeProjects = <<>>,
                            !.IncludeProjects = <<>>]
       IN KeptAt(d, <<>>, <<>>, read) = {1, 2}

====
